---- MODULE Spec2Model ----
(***************************************************************************)
(* The multi-agent workflow of UIGen: the LangGraph state graph built by   *)
(* buildMultiAgentGraph (lib/agents/graph.ts), driven by                   *)
(* runRealMultiAgentFlow (api/chat/multi-agent/route.ts), and the scripted *)
(* runMockMultiAgentFlow (lib/agents/mock-flow.ts).                        *)
(*                                                                         *)
(* A message is a record [type, agent, calls, content]: type is LangChain's*)
(* getType() ("human", "ai", "tool"); agent is a ghost field naming the    *)
(* phase that produced the message ("user" for the request); calls is the  *)
(* ordered list of tool calls of an AI message; content abstracts the text *)
(* to the markers the code searches for.                                   *)
(***************************************************************************)
EXTENDS Integers, Sequences, FiniteSets, TLC

\* ---------------------------------------------------------------- constants
MAX_ITERATIONS == 2
MAX_RETRIES == 1
recursionLimit == 80
\* qaDecisionNode scans the last ScanWindow messages only.
ScanWindow == 10
END == "__end__"

\* ------------------------------------------------------------------- bounds
\* Tool-requesting model turns allowed in one run outside a stubborn phase.
MaxToolTurns == 3

VARIABLES
  pc,               \* position of the flow's async body
  flow,             \* "real" | "mock"  (isMockProvider)
  projectId,        \* whether the request carried a projectId
  stubborn,         \* phase in which the model requests a tool on every turn
  node,             \* next graph node to run
  steps,            \* supersteps executed by graph.invoke
  messages,         \* WorkflowState.messages
  designSpec, reviewNotes, currentAgent, iterationCount,
  designRetries, engineerRetries, qaRetries,
  engineerStartIdx, qaStartIdx,
  events,           \* events handed to sendEvent, in order
  toolTurns,        \* tool-requesting turns used (environment budget)
  path,             \* ghost: graph nodes executed, in order
  modelInput,       \* ghost: positions of the messages passed to the last
                    \* model invocation
  systemMsg,        \* ghost: the SystemMessage of the last model invocation
  decisions,        \* ghost: one record per run of qa_decision, in order
  error,            \* what the catch block caught ("" if nothing)
  saved,            \* saveProjectState was called
  saveResult,       \* ghost: how that call ended ("" if there was none)
  writerClosed,
  files,            \* paths of the VirtualFileSystem other than the root
  doneFiles,        \* files payload of the workflow_done event: <<>> when
                    \* the event has no files key, else <<the paths>>
  sinkFails,        \* every writer.write rejects (client disconnected)
  delivered,        \* events written to the response stream, in order
  \* one call of a file tool, taken alone (specification ToolSpec)
  toolFs,           \* paths in the file system the tool works on
  toolCall,         \* the call made: the tool, its arguments, the file
                    \* system before it and the collaborator's answer
  toolOut,          \* what the call made of it: the operation it called on
                    \* the file system and the value it returned
  \* two requests served at once (specification ConcSpec)
  active,           \* the request whose run is executing now
  parked,           \* the state of the other request's run, at its await
  fileSystemOf,     \* request -> the VirtualFileSystem instance of its POST
  fsStore,          \* instance -> its contents, while its run is parked
  \* the mock flow run again on the file system it left (specification
  \* MockSpec)
  mockPrompt,       \* the user's prompt, as its words
  mockFs,           \* path -> content of the file ("absent" if there is none)
  mockStart,        \* ghost: the file system before the first run
  mockFirst,        \* ghost: the file system after the first run
  mockRuns,         \* runs of the mock flow completed
  mockEvents,       \* the events of the last run, in order
  \* the client reading the response stream (specification SseSpec)
  sseLines,         \* ghost: the records put on the stream, in order
  sseStream,        \* the bytes of the stream not yet read
  sseDecoder,       \* the TextDecoder's pending bytes
  sseBuffer,        \* consumeSSEStream's buffer
  sseEvents,        \* the events passed to onEvent, in order
  sseDone,          \* the reader reported done and the buffer was flushed
  \* the chat provider on the client (specification ClientSpec)
  multiInput,           \* React state: the text of the input box
  isMultiAgentRunning,  \* React state: the running flag
  multiAgentMessages,   \* React state: the roles of the chat's messages
  rendered,             \* the state values the current multiHandleSubmit
                        \* closure was created with, at the last render
  requests              \* the requests started, in order: where each is

graphVars == <<node, steps, messages, designSpec, reviewNotes, currentAgent,
               iterationCount, designRetries, engineerRetries, qaRetries,
               engineerStartIdx, qaStartIdx, toolTurns, path, modelInput, systemMsg,
               decisions>>
\* the variables of the specifications that do not run the workflow of one
\* request
toolVars == <<toolFs, toolCall, toolOut>>

concVars == <<active, parked, fileSystemOf, fsStore>>

mockVars == <<mockPrompt, mockFs, mockStart, mockFirst, mockRuns, mockEvents>>

sseVars == <<sseLines, sseStream, sseDecoder, sseBuffer, sseEvents, sseDone>>

clientVars == <<multiInput, isMultiAgentRunning, multiAgentMessages, rendered,
                requests>>

extraVars == <<mockVars, sseVars, clientVars>>

sideVars == <<toolVars, concVars, extraVars>>

runVars == <<pc, flow, projectId, stubborn, events, error, saved, saveResult,
          writerClosed,
          files, doneFiles, sinkFails, delivered,
          node, steps, messages, designSpec, reviewNotes, currentAgent,
          iterationCount, designRetries, engineerRetries, qaRetries,
          engineerStartIdx, qaStartIdx, toolTurns, path, modelInput, systemMsg,
          decisions>>

vars == <<runVars, sideVars>>

\* ------------------------------------------------------------------ helpers
Last(s) == s[Len(s)]

Msg(t, a, cs, c) == [type |-> t, agent |-> a, calls |-> cs, content |-> c]

Ev(t, a, i) == [type |-> t, agent |-> a, info |-> i]

\* String.prototype.includes on the abstract contents: which marker a content
\* carries.  "spec" is the create_design_spec result, "approved"/"needsrev"
\* the two submit_review results, "ok"/"err" file tool results.
Includes(content, marker) ==
  CASE marker = "Design spec created" -> content = "spec"
    [] marker = "NEEDS REVISION"      -> content = "needsrev"
    [] marker = "APPROVED"            -> content = "approved"
    [] OTHER                          -> FALSE

\* The tools: what each call returns as its ToolMessage content.  A failing
\* call (rename of a missing path, invalid arguments) comes back as an error
\* result because every ToolNode is built with handleToolErrors: true.
ToolResult(call) ==
  CASE call = "create_design_spec"  -> "spec"
    [] call = "submit_approved"     -> "approved"
    [] call = "submit_needsrev"     -> "needsrev"
    [] call = "rename_missing"      -> "err"
    [] call = "invalid_args"        -> "err"
    [] OTHER                        -> "ok"

\* mutant: a call that fails leaves no ToolMessage
ToolNode_skipsFailed(msgs, agent) ==
  LET calls == Last(msgs).calls
  IN  SelectSeq([i \in 1..Len(calls) |->
                   Msg("tool", agent, <<>>, ToolResult(calls[i]))],
                LAMBDA m : m.content # "err")

\* ToolNode: one ToolMessage per tool call of the last AI message, in order.
ToolNode(msgs, agent) ==
  LET calls == Last(msgs).calls
  IN  [i \in 1..Len(calls) |-> Msg("tool", agent, <<>>, ToolResult(calls[i]))]

\* What the tool calls of the last AI message leave in the file system:
\* str_replace_editor create adds the file, the other calls modelled here
\* (view, a rename that fails, the spec and review tools) add nothing.
FileSystemAfter(fs, msgs) ==
  IF \E i \in 1..Len(Last(msgs).calls) : Last(msgs).calls[i] = "create"
  THEN fs \cup {"/App.jsx"}
  ELSE fs

\* The replies the model may give in each phase: tool calls and whether the
\* reply carries text (extractTextContent non-empty).
Reply(cs, txt) == [calls |-> cs, text |-> txt]

DesignReplies ==
  { Reply(<<>>, TRUE),
    Reply(<<"create_design_spec">>, FALSE),
    Reply(<<"view">>, TRUE),
    Reply(<<"invalid_args">>, FALSE) }

EngineerReplies ==
  { Reply(<<>>, TRUE),
    Reply(<<"create">>, TRUE),
    Reply(<<"rename_missing", "create">>, FALSE) }

QAReplies ==
  { Reply(<<>>, TRUE),
    Reply(<<"view">>, FALSE),
    Reply(<<"submit_approved">>, TRUE),
    Reply(<<"view", "submit_needsrev">>, FALSE) }

\* The reply of a model that requests a tool on every turn.
StubbornReply == Reply(<<"view">>, FALSE)

\* Environment: which replies are offered to a phase now.  A stubborn model
\* acts in its phase only, and there without end; any other model requests
\* tools in at most MaxToolTurns turns of a run.
Offered(agent, replies) ==
  IF stubborn = agent THEN {StubbornReply}
  ELSE {r \in replies :
          r.calls = <<>> \/ (stubborn = "none" /\ toolTurns < MaxToolTurns)}

\* mutant: only the first tool call of a reply is reported
ReplyEvents_firstCallOnly(agent, r) ==
  (IF r.text THEN <<Ev("agent_message", agent, "")>> ELSE <<>>)
  \o (IF r.calls = <<>> THEN <<>>
      ELSE <<Ev("agent_tool_call", agent, r.calls[1])>>)

\* The events an agent node emits for a reply: agent_message when there is
\* text, then one agent_tool_call per tool call, in order.
ReplyEvents(agent, r) ==
  (IF r.text THEN <<Ev("agent_message", agent, "")>> ELSE <<>>)
  \o [i \in 1..Len(r.calls) |-> Ev("agent_tool_call", agent, r.calls[i])]

AIMessage(agent, r) == Msg("ai", agent, r.calls, IF r.text THEN "text" ELSE "")

\* What is passed to a model is recorded as the transcript positions
\* (1-based) of the messages passed, in the order passed.
Positions(msgs) == [i \in 1..Len(msgs) |-> i]

\* messages.filter(m => m.getType() === "human")
HumanMessages(msgs) ==
  SelectSeq(Positions(msgs), LAMBDA i : msgs[i].type = "human")

\* messages.find(m => m.getType() === "human"), as a list of 0 or 1 message
FirstHuman(msgs) ==
  LET hs == HumanMessages(msgs) IN IF hs = <<>> THEN <<>> ELSE <<hs[1]>>

\* mutant: the slice starts one message too early
Slice_oneEarlier(msgs, startIdx) ==
  IF startIdx < Len(msgs) /\ startIdx >= 1
  THEN [j \in 1..(Len(msgs) - startIdx + 1) |-> startIdx + j - 1]
  ELSE <<>>

\* messages.slice(startIdx) with a 0-based index (empty when out of range)
Slice(msgs, startIdx) ==
  IF startIdx < Len(msgs)
  THEN [j \in 1..(Len(msgs) - startIdx) |-> startIdx + j]
  ELSE <<>>

\* The reducer of WorkflowState.messages: what a node returns under
\* `messages` is appended to the transcript.
\* mutant: the update replaces the transcript (the reducer of the other keys)
messagesStateReducer_replace(left, right) == right

messagesStateReducer(left, right) == left \o right

\* ------------------------------------------------------------------ routers
HasToolCalls(m) == m.type = "ai" /\ Len(m.calls) > 0

\* mutant: the retry test admits one nudge too many
routeDesign_le(msgs, retries) ==
  IF HasToolCalls(Last(msgs)) THEN "design_tools"
  ELSE IF retries <= MAX_RETRIES THEN "design_nudge"
  ELSE "engineer"

routeDesign(msgs, retries) ==
  IF HasToolCalls(Last(msgs)) THEN "design_tools"
  ELSE IF retries < MAX_RETRIES THEN "design_nudge"
  ELSE "engineer"

\* mutant: the engineer hands over to the decision, skipping the review
routeEngineer_skipsReview(msgs, retries) ==
  IF HasToolCalls(Last(msgs)) THEN "engineer_tools"
  ELSE IF retries < MAX_RETRIES THEN "engineer_nudge"
  ELSE "qa_decision"

\* mutant: the retry test lets one nudge too many through
routeEngineer_le(msgs, retries) ==
  IF HasToolCalls(Last(msgs)) THEN "engineer_tools"
  ELSE IF retries <= MAX_RETRIES THEN "engineer_nudge"
  ELSE "qa"

routeEngineer(msgs, retries) ==
  IF HasToolCalls(Last(msgs)) THEN "engineer_tools"
  ELSE IF retries < MAX_RETRIES THEN "engineer_nudge"
  ELSE "qa"

\* mutant: the qa router reads the engineer's counter
routeQA_engineerRetries(msgs, retries) ==
  IF HasToolCalls(Last(msgs)) THEN "qa_tools"
  ELSE IF engineerRetries < MAX_RETRIES THEN "qa_nudge"
  ELSE "qa_decision"

routeQA(msgs, retries) ==
  IF HasToolCalls(Last(msgs)) THEN "qa_tools"
  ELSE IF retries < MAX_RETRIES THEN "qa_nudge"
  ELSE "qa_decision"

routeQADecision(agent) == IF agent = "engineer" THEN "engineer" ELSE END

\* ------------------------------------------------------- node computations
\* designToolsPostProcess: the content of the most recent tool message that
\* carries the design-spec marker, else the spec as it was.
\* mutant: the latest tool result is taken, marked or not
designToolsPostProcess_anyToolResult(msgs, spec) ==
  LET hits == {i \in 1..Len(msgs) : msgs[i].type = "tool"}
  IN  IF hits = {} THEN spec
      ELSE msgs[CHOOSE i \in hits : \A j \in hits : j <= i].content

designToolsPostProcess(msgs, spec) ==
  LET hits == {i \in 1..Len(msgs) :
                 msgs[i].type = "tool"
                 /\ Includes(msgs[i].content, "Design spec created")}
  IN  IF hits = {} THEN spec
      ELSE msgs[CHOOSE i \in hits : \A j \in hits : j <= i].content

\* The scan of qaDecisionNode: from the end, over at most ScanWindow
\* messages, the first tool message carrying a verdict marker.
IsVerdict(m) ==
  m.type = "tool"
  /\ (Includes(m.content, "NEEDS REVISION") \/ Includes(m.content, "APPROVED"))

\* mutant: the scan goes back over the whole transcript
ReviewScan_wholeTranscript(msgs) ==
  LET hits == {i \in 1..Len(msgs) : IsVerdict(msgs[i])}
  IN  IF hits = {} THEN [needsRevision |-> FALSE, reviewNotes |-> ""]
      ELSE LET m == msgs[CHOOSE i \in hits : \A j \in hits : j <= i]
           IN  [needsRevision |-> Includes(m.content, "NEEDS REVISION"),
                reviewNotes   |-> m.content]

ReviewScan(msgs) ==
  LET window == {i \in 1..Len(msgs) : i > Len(msgs) - ScanWindow}
      hits   == {i \in window : IsVerdict(msgs[i])}
  IN  IF hits = {} THEN [needsRevision |-> FALSE, reviewNotes |-> ""]
      ELSE LET m == msgs[CHOOSE i \in hits : \A j \in hits : j <= i]
           IN  [needsRevision |-> Includes(m.content, "NEEDS REVISION"),
                reviewNotes   |-> m.content]

\* mutant: the iteration test admits one revision too many
qaDecisionNode_le(msgs, iterCount) ==
  LET scan      == ReviewScan(msgs)
      iteration == iterCount + 1
  IN  IF scan.needsRevision /\ iteration <= MAX_ITERATIONS
      THEN [reviewNotes |-> scan.reviewNotes, iterationCount |-> iteration,
            currentAgent |-> "engineer", resetEngineerStart |-> TRUE,
            event |-> Ev("agent_message", "qa", "revision")]
      ELSE [reviewNotes |-> scan.reviewNotes, iterationCount |-> iteration,
            currentAgent |-> "done", resetEngineerStart |-> FALSE,
            event |-> Ev("agent_done", "qa",
                         IF scan.needsRevision THEN "max_iterations"
                                               ELSE "approved")]

\* mutant: the count is advanced only when a revision is requested
qaDecisionNode_countsRevisions(msgs, iterCount) ==
  LET scan      == ReviewScan(msgs)
      iteration == iterCount + 1
  IN  IF scan.needsRevision /\ iteration < MAX_ITERATIONS
      THEN [reviewNotes |-> scan.reviewNotes, iterationCount |-> iteration,
            currentAgent |-> "engineer", resetEngineerStart |-> TRUE,
            event |-> Ev("agent_message", "qa", "revision")]
      ELSE [reviewNotes |-> scan.reviewNotes, iterationCount |-> iterCount,
            currentAgent |-> "done", resetEngineerStart |-> FALSE,
            event |-> Ev("agent_done", "qa",
                         IF scan.needsRevision THEN "max_iterations"
                                               ELSE "approved")]

\* mutant: the revision does not reset the engineer's start index
qaDecisionNode_keepsStart(msgs, iterCount) ==
  LET scan      == ReviewScan(msgs)
      iteration == iterCount + 1
  IN  IF scan.needsRevision /\ iteration < MAX_ITERATIONS
      THEN [reviewNotes |-> scan.reviewNotes, iterationCount |-> iteration,
            currentAgent |-> "engineer", resetEngineerStart |-> FALSE,
            event |-> Ev("agent_message", "qa", "revision")]
      ELSE [reviewNotes |-> scan.reviewNotes, iterationCount |-> iteration,
            currentAgent |-> "done", resetEngineerStart |-> FALSE,
            event |-> Ev("agent_done", "qa",
                         IF scan.needsRevision THEN "max_iterations"
                                               ELSE "approved")]

\* qaDecisionNode: the state update it returns and the event it emits.
qaDecisionNode(msgs, iterCount) ==
  LET scan      == ReviewScan(msgs)
      iteration == iterCount + 1
  IN  IF scan.needsRevision /\ iteration < MAX_ITERATIONS
      THEN [reviewNotes |-> scan.reviewNotes, iterationCount |-> iteration,
            currentAgent |-> "engineer", resetEngineerStart |-> TRUE,
            event |-> Ev("agent_message", "qa", "revision")]
      ELSE [reviewNotes |-> scan.reviewNotes, iterationCount |-> iteration,
            currentAgent |-> "done", resetEngineerStart |-> FALSE,
            event |-> Ev("agent_done", "qa",
                         IF scan.needsRevision THEN "max_iterations"
                                               ELSE "approved")]

\* The SystemMessage an agent node passes to its model: the agent's prompt
\* and, for the engineer, the design specification and the review notes it
\* appends when they are not empty ("" when nothing is appended).
SystemMessage(prompt, contextMessage, revisionContext) ==
  [prompt |-> prompt, contextMessage |-> contextMessage,
   revisionContext |-> revisionContext]

NoSystemMsg == SystemMessage("", "", "")

designSystemMsg == SystemMessage("DESIGN_SYSTEM_PROMPT", "", "")

qaSystemMsg == SystemMessage("QA_SYSTEM_PROMPT", "", "")

\* mutant: the review notes are appended only while no revision was decided
engineerSystemMsg_firstPassOnly(spec, notes) ==
  SystemMessage("ENGINEER_SYSTEM_PROMPT",
                IF spec # "" THEN spec ELSE "",
                IF notes # "" /\ iterationCount = 0 THEN notes ELSE "")

engineerSystemMsg(spec, notes) ==
  SystemMessage("ENGINEER_SYSTEM_PROMPT",
                IF spec # "" THEN spec ELSE "",
                IF notes # "" THEN notes ELSE "")

\* ------------------------------------------------------------------- Init
RunInit ==
  /\ pc = "start"
  /\ flow \in {"real", "mock"}
  /\ projectId \in BOOLEAN
  /\ stubborn \in {"none", "engineer", "qa"}
  /\ node = "design"
  /\ steps = 0
  /\ messages = <<>>
  /\ designSpec = ""
  /\ reviewNotes = ""
  /\ currentAgent = "design"
  /\ iterationCount = 0
  /\ designRetries = 0
  /\ engineerRetries = 0
  /\ qaRetries = 0
  /\ engineerStartIdx = -1
  /\ qaStartIdx = -1
  /\ events = <<>>
  /\ toolTurns = 0
  /\ path = <<>>
  /\ modelInput = <<>>
  /\ systemMsg = NoSystemMsg
  /\ decisions = <<>>
  /\ error = ""
  /\ saved = FALSE
  /\ saveResult = ""
  /\ writerClosed = FALSE
  /\ files = {}
  /\ doneFiles = <<>>
  /\ sinkFails \in BOOLEAN
  /\ delivered = <<>>

\* no file tool is called on its own while a request runs
NoToolCall == [tool |-> "none"]

ToolIdle ==
  /\ toolFs = {}
  /\ toolCall = NoToolCall
  /\ toolOut = NoToolCall

Requests == {1, 2}

\* the tool turns the two requests may take between them
MaxConcToolTurns == 1

NoRun == [node |-> "none"]

NewVirtualFileSystem_shared(request) == 1

\* const fileSystem = new VirtualFileSystem(): an instance of its own for
\* each request
NewVirtualFileSystem(request) == request

\* a single request is served
ConcIdle ==
  /\ active = 1
  /\ parked = NoRun
  /\ fileSystemOf = [r \in {1} |-> NewVirtualFileSystem(r)]
  /\ fsStore = [i \in {1} |-> {}]

\* the mock flow is not run a second time
MockIdle ==
  /\ mockPrompt = <<>>
  /\ mockFs = <<>>
  /\ mockStart = <<>>
  /\ mockFirst = <<>>
  /\ mockRuns = 0
  /\ mockEvents = <<>>

\* no response stream is being read
SseIdle ==
  /\ sseLines = <<>>
  /\ sseStream = <<>>
  /\ sseDecoder = <<>>
  /\ sseBuffer = <<>>
  /\ sseEvents = <<>>
  /\ sseDone = FALSE

\* the chat provider as mounted, nothing typed
ClientIdle ==
  /\ multiInput = ""
  /\ isMultiAgentRunning = FALSE
  /\ multiAgentMessages = <<>>
  /\ rendered = [multiInput |-> "", isMultiAgentRunning |-> FALSE]
  /\ requests = <<>>

ExtraIdle == MockIdle /\ SseIdle /\ ClientIdle

SideIdle == ToolIdle /\ ConcIdle /\ ExtraIdle

Init == RunInit /\ SideIdle

\* ------------------------------------------------------------ event sink
\* sendEvent: writer.write inside try/catch; a rejected write is swallowed.
\* mutant: the rejected write is rethrown to the caller
sendEvent_rethrows(writeFails) == IF writeFails THEN "thrown" ELSE "written"

sendEvent(writeFails) == IF writeFails THEN "swallowed" ELSE "written"

\* The events evs are handed to sendEvent one after the other.
Send(evs) ==
  /\ events' = events \o evs
  /\ delivered' = IF sendEvent(sinkFails) = "written" THEN delivered \o evs
                   ELSE delivered

\* ------------------------------------------------------------ graph nodes
\* graph.invoke(..., { recursionLimit: 80 }): another superstep may run only
\* while fewer than recursionLimit have run.
WithinRecursionLimit_offByOne(n) == n <= recursionLimit

WithinRecursionLimit(n) == n < recursionLimit

\* One superstep of graph.invoke: node n runs and its outgoing edge is taken.
Step(n) ==
  /\ pc = "graph"
  /\ node = n
  /\ WithinRecursionLimit(steps)
  /\ steps' = steps + 1
  /\ path' = Append(path, n)
  /\ UNCHANGED <<pc, flow, projectId, stubborn, sinkFails, sideVars, error, saved, saveResult,
                  writerClosed, doneFiles>>

Spend(agent, r) ==
  toolTurns' = IF r.calls # <<>> /\ stubborn # agent THEN toolTurns + 1
               ELSE toolTurns

designNode ==
  /\ Step("design")
  /\ \E r \in Offered("design", DesignReplies) :
       /\ modelInput' = HumanMessages(messages)
       /\ systemMsg' = designSystemMsg
       /\ messages' = messagesStateReducer(messages,
                                          <<AIMessage("design", r)>>)
       /\ Send(<<Ev("agent_start", "design", "")>> \o ReplyEvents("design", r))
       /\ Spend("design", r)
  /\ currentAgent' = "design"
  /\ node' = routeDesign(messages', designRetries)
  /\ UNCHANGED <<designSpec, reviewNotes, iterationCount, designRetries,
                 engineerRetries, qaRetries, engineerStartIdx, qaStartIdx,
                 decisions, files>>

designToolNode ==
  /\ Step("design_tools")
  /\ messages' = messagesStateReducer(messages, ToolNode(messages, "design"))
  /\ files' = FileSystemAfter(files, messages)
  /\ node' = "design_post"
  /\ UNCHANGED <<designSpec, reviewNotes, currentAgent, iterationCount,
                 designRetries, engineerRetries, qaRetries, engineerStartIdx,
                 qaStartIdx, events, delivered, toolTurns, modelInput, systemMsg,
                 decisions>>

designPostNode ==
  /\ Step("design_post")
  /\ designSpec' = designToolsPostProcess(messages, designSpec)
  /\ node' = "engineer"
  /\ UNCHANGED <<messages, reviewNotes, currentAgent, iterationCount,
                 designRetries, engineerRetries, qaRetries, engineerStartIdx,
                 qaStartIdx, events, delivered, toolTurns, modelInput, systemMsg,
                 decisions, files>>

designNudgeNode ==
  /\ Step("design_nudge")
  /\ messages' = messagesStateReducer(messages,
                                     <<Msg("human", "design", <<>>, "nudge")>>)
  /\ designRetries' = designRetries + 1
  /\ node' = "design"
  /\ UNCHANGED <<designSpec, reviewNotes, currentAgent, iterationCount,
                 engineerRetries, qaRetries, engineerStartIdx, qaStartIdx,
                 events, delivered, toolTurns, modelInput, systemMsg, decisions,
                 files>>

engineerNode ==
  /\ Step("engineer")
  /\ LET startIdx == IF engineerStartIdx >= 0 THEN engineerStartIdx
                     ELSE Len(messages)
     IN  /\ modelInput' = FirstHuman(messages) \o Slice(messages, startIdx)
         /\ engineerStartIdx' = startIdx
  /\ systemMsg' = engineerSystemMsg(designSpec, reviewNotes)
  /\ \E r \in Offered("engineer", EngineerReplies) :
       /\ messages' = messagesStateReducer(messages,
                                          <<AIMessage("engineer", r)>>)
       /\ Send(<<Ev("agent_start", "engineer", "")>> \o ReplyEvents("engineer", r))
       /\ Spend("engineer", r)
  /\ currentAgent' = "engineer"
  /\ node' = routeEngineer(messages', engineerRetries)
  /\ UNCHANGED <<designSpec, reviewNotes, iterationCount, designRetries,
                 engineerRetries, qaRetries, qaStartIdx, decisions, files>>

engineerToolNode ==
  /\ Step("engineer_tools")
  /\ messages' = messagesStateReducer(messages, ToolNode(messages, "engineer"))
  /\ files' = FileSystemAfter(files, messages)
  /\ node' = "engineer"
  /\ UNCHANGED <<designSpec, reviewNotes, currentAgent, iterationCount,
                 designRetries, engineerRetries, qaRetries, engineerStartIdx,
                 qaStartIdx, events, delivered, toolTurns, modelInput, systemMsg,
                 decisions>>

\* mutant: the nudge also resets the engineer's start index
engineerNudgeNode_resetsStart ==
  /\ Step("engineer_nudge")
  /\ messages' = messagesStateReducer(messages,
                                     <<Msg("human", "engineer", <<>>, "nudge")>>)
  /\ engineerRetries' = engineerRetries + 1
  /\ engineerStartIdx' = -1
  /\ node' = "engineer"
  /\ UNCHANGED <<designSpec, reviewNotes, currentAgent, iterationCount,
                 designRetries, qaRetries, qaStartIdx,
                 events, delivered, toolTurns, modelInput, systemMsg, decisions,
                 files>>

engineerNudgeNode ==
  /\ Step("engineer_nudge")
  /\ messages' = messagesStateReducer(messages,
                                     <<Msg("human", "engineer", <<>>, "nudge")>>)
  /\ engineerRetries' = engineerRetries + 1
  /\ node' = "engineer"
  /\ UNCHANGED <<designSpec, reviewNotes, currentAgent, iterationCount,
                 designRetries, qaRetries, engineerStartIdx, qaStartIdx,
                 events, delivered, toolTurns, modelInput, systemMsg, decisions,
                 files>>

qaNode ==
  /\ Step("qa")
  /\ LET startIdx == IF qaStartIdx >= 0 THEN qaStartIdx ELSE Len(messages)
     IN  /\ modelInput' = FirstHuman(messages) \o Slice(messages, startIdx)
         /\ qaStartIdx' = startIdx
  /\ systemMsg' = qaSystemMsg
  /\ \E r \in Offered("qa", QAReplies) :
       /\ messages' = messagesStateReducer(messages,
                                          <<AIMessage("qa", r)>>)
       /\ Send(<<Ev("agent_start", "qa", "")>> \o ReplyEvents("qa", r))
       /\ Spend("qa", r)
  /\ currentAgent' = "qa"
  /\ node' = routeQA(messages', qaRetries)
  /\ UNCHANGED <<designSpec, reviewNotes, iterationCount, designRetries,
                 engineerRetries, qaRetries, engineerStartIdx, decisions,
                 files>>

qaToolNode ==
  /\ Step("qa_tools")
  /\ messages' = messagesStateReducer(messages, ToolNode(messages, "qa"))
  /\ files' = FileSystemAfter(files, messages)
  /\ node' = "qa"
  /\ UNCHANGED <<designSpec, reviewNotes, currentAgent, iterationCount,
                 designRetries, engineerRetries, qaRetries, engineerStartIdx,
                 qaStartIdx, events, delivered, toolTurns, modelInput, systemMsg,
                 decisions>>

qaNudgeNode ==
  /\ Step("qa_nudge")
  /\ messages' = messagesStateReducer(messages,
                                     <<Msg("human", "qa", <<>>, "nudge")>>)
  /\ qaRetries' = qaRetries + 1
  /\ node' = "qa"
  /\ UNCHANGED <<designSpec, reviewNotes, currentAgent, iterationCount,
                 designRetries, engineerRetries, engineerStartIdx, qaStartIdx,
                 events, delivered, toolTurns, modelInput, systemMsg, decisions,
                 files>>

qaDecision ==
  /\ Step("qa_decision")
  /\ LET d == qaDecisionNode(messages, iterationCount)
     IN  /\ reviewNotes' = d.reviewNotes
         /\ iterationCount' = d.iterationCount
         /\ currentAgent' = d.currentAgent
         /\ engineerStartIdx' = IF d.resetEngineerStart THEN -1
                                ELSE engineerStartIdx
         /\ Send(<<d.event>>)
         /\ node' = routeQADecision(d.currentAgent)
  /\ decisions' = Append(decisions,
                         [entry |-> iterationCount,
                          found |-> ReviewScan(messages).reviewNotes # "",
                          needsRevision |-> ReviewScan(messages).needsRevision])
  /\ UNCHANGED <<messages, designSpec, designRetries, engineerRetries,
                 qaRetries, qaStartIdx, toolTurns, modelInput, systemMsg, files>>

\* catch (error), real flow: hasFiles is "more than just the root".
hasFiles(fs) == fs # {}

\* The files payload of the error workflow_done: the real flow attaches the
\* serialized file system when hasFiles, the mock flow sends the error only.
\* mutant: the error event never carries the files
ErrorDoneFiles_none(fl, fs) == <<>>

ErrorDoneFiles(fl, fs) == IF fl = "real" /\ hasFiles(fs) THEN <<fs>> ELSE <<>>

\* mutant: the error workflow_done overtakes the events of the failing step
Caught_doneFirst(evs, fs, what) ==
  /\ Send(<<Ev("workflow_done", "orchestrator", "error")>> \o evs)
  /\ doneFiles' = ErrorDoneFiles(flow, fs)
  /\ error' = what
  /\ pc' = "finally"

\* catch (error): what was thrown inside the try block is caught; after the
\* events evs the action had sent, the error workflow_done is sent with the
\* file system as it is then (fs); finally comes next.
Caught(evs, fs, what) ==
  /\ Send(evs \o <<Ev("workflow_done", "orchestrator", "error")>>)
  /\ doneFiles' = ErrorDoneFiles(flow, fs)
  /\ error' = what
  /\ pc' = "finally"

\* An agent node that rejects: it has emitted agent_start, then the model
\* call throws (or an event write does, if sendEvent lets that through); the
\* exception leaves graph.invoke and lands in the flow's catch block.
ModelFails ==
  /\ pc = "graph"
  /\ node \in {"design", "engineer", "qa"}
  /\ WithinRecursionLimit(steps)
  /\ \E what \in {"model"}
                 \cup {w \in {"emit"} : sendEvent(sinkFails) = "thrown"} :
       Caught(<<Ev("agent_start", node, "")>>, files, what)
  /\ UNCHANGED <<flow, projectId, stubborn, sinkFails, sideVars, saved, saveResult, writerClosed,
                 files>>
  /\ UNCHANGED graphVars

\* graph.invoke gives up once recursionLimit supersteps ran without reaching
\* END: GraphRecursionError.
RecursionLimitError ==
  /\ pc = "graph"
  /\ node # END
  /\ ~WithinRecursionLimit(steps)
  /\ Caught(<<>>, files, "recursion")
  /\ UNCHANGED <<flow, projectId, stubborn, sinkFails, sideVars, saved, saveResult, writerClosed,
                 files>>
  /\ UNCHANGED graphVars

\* ----------------------------------------------------------- the two flows
\* saveProjectState: every failure is caught and logged inside it, so it
\* returns whatever happens ("throws" never comes out of it).
\* mutant: a database failure is rethrown instead of logged
saveProjectState_rethrows(session, dbOk) ==
  IF ~session THEN "not_authenticated"
  ELSE IF dbOk THEN "saved"
  ELSE "throws"

saveProjectState(session, dbOk) ==
  IF ~session THEN "not_authenticated"
  ELSE IF dbOk THEN "saved"
  ELSE "logged"

\* runRealMultiAgentFlow up to graph.invoke: the orchestrator's agent_start,
\* the graph is built, the request becomes the first message.
RealStart ==
  /\ pc = "start"
  /\ flow = "real"
  /\ Send(<<Ev("agent_start", "orchestrator", "")>>)
  /\ messages' = <<Msg("human", "user", <<>>, "request")>>
  /\ pc' = "graph"
  /\ UNCHANGED <<flow, projectId, stubborn, sinkFails, sideVars, error, saved, saveResult,
                 writerClosed, files, doneFiles, node,
                 steps, designSpec, reviewNotes, currentAgent, iterationCount,
                 designRetries, engineerRetries, qaRetries, engineerStartIdx,
                 qaStartIdx, toolTurns, path, modelInput, systemMsg, decisions>>

\* buildMultiAgentGraph throws (no ANTHROPIC_API_KEY) or the import fails.
RealStartFails ==
  /\ pc = "start"
  /\ flow = "real"
  /\ Caught(<<Ev("agent_start", "orchestrator", "")>>, files, "build")
  /\ UNCHANGED <<flow, projectId, stubborn, sinkFails, sideVars, saved, saveResult, writerClosed,
                 files>>
  /\ UNCHANGED graphVars

\* graph.invoke resolved: the success workflow_done is sent with the
\* serialized file system.
GraphReturns ==
  /\ pc = "graph"
  /\ node = END
  /\ Send(<<Ev("workflow_done", "orchestrator", "files")>>)
  /\ doneFiles' = <<files>>
  /\ pc' = "persist"
  /\ UNCHANGED <<flow, projectId, stubborn, sinkFails, sideVars, error, saved, saveResult,
                 writerClosed, files>>
  /\ UNCHANGED graphVars

\* if (projectId) await saveProjectState(...), still inside the try block.
Persist ==
  /\ pc = "persist"
  /\ \E session \in BOOLEAN, dbOk \in BOOLEAN :
       /\ saveResult' = IF projectId THEN saveProjectState(session, dbOk)
                        ELSE ""
       /\ IF projectId /\ saveProjectState(session, dbOk) = "throws"
          THEN /\ Caught(<<>>, files, "save")
               /\ saved' = TRUE
          ELSE /\ pc' = "finally"
               /\ saved' = projectId
               /\ UNCHANGED <<events, delivered, doneFiles, error>>
  /\ UNCHANGED <<flow, projectId, stubborn, sinkFails, sideVars, writerClosed, files>>
  /\ UNCHANGED graphVars

\* finally: writer.close() inside try/catch
Finally ==
  /\ pc = "finally"
  /\ writerClosed' = TRUE
  /\ pc' = "closed"
  /\ UNCHANGED <<flow, projectId, stubborn, sinkFails, sideVars, events, delivered,
                 error, saved, saveResult, files, doneFiles>>
  /\ UNCHANGED graphVars

\* runMockMultiAgentFlow: the scripted events of the three agents.
MockDesignEvents ==
  << Ev("agent_start", "orchestrator", ""),
     Ev("agent_start", "design", ""),
     Ev("agent_message", "design", ""),
     Ev("agent_tool_call", "design", "create_design_spec"),
     Ev("agent_done", "design", "") >>

MockEngineerEvents(written) ==
  << Ev("agent_start", "engineer", ""),
     Ev("agent_message", "engineer", "") >>
  \o (IF written >= 1
      THEN <<Ev("agent_tool_call", "engineer", "str_replace_editor")>>
      ELSE <<>>)
  \o (IF written >= 2
      THEN << Ev("agent_tool_call", "engineer", "str_replace_editor"),
              Ev("agent_done", "engineer", "") >>
      ELSE <<>>)

\* The files the mock engineer has written after `written` successful writes:
\* the component file first, /App.jsx second.
MockFiles(written) ==
  (IF written >= 1 THEN {"/components/Component.jsx"} ELSE {})
  \cup (IF written >= 2 THEN {"/App.jsx"} ELSE {})

MockQAEvents ==
  << Ev("agent_start", "qa", ""),
     Ev("agent_message", "qa", ""),
     Ev("agent_tool_call", "qa", "submit_review"),
     Ev("agent_done", "qa", ""),
     Ev("workflow_done", "orchestrator", "files") >>

MockDesign ==
  /\ pc = "start"
  /\ flow = "mock"
  /\ Send(MockDesignEvents)
  /\ pc' = "mock_engineer"
  /\ UNCHANGED <<flow, projectId, stubborn, sinkFails, sideVars, error, saved, saveResult,
                 writerClosed, files, doneFiles>>
  /\ UNCHANGED graphVars

\* The engineer part writes the component file and /App.jsx; a file system
\* call that throws (after `written` successful writes) lands in catch.
MockEngineer ==
  /\ pc = "mock_engineer"
  /\ \E written \in 0..2 :
       /\ files' = files \cup MockFiles(written)
       /\ IF written = 2
          THEN /\ Send(MockEngineerEvents(written))
               /\ pc' = "mock_qa"
               /\ UNCHANGED <<error, doneFiles>>
          ELSE Caught(MockEngineerEvents(written), files', "filesystem")
  /\ UNCHANGED <<flow, projectId, stubborn, sinkFails, sideVars, saved, saveResult, writerClosed>>
  /\ UNCHANGED graphVars

MockQA ==
  /\ pc = "mock_qa"
  /\ Send(MockQAEvents)
  /\ doneFiles' = <<files>>
  /\ pc' = "persist"
  /\ UNCHANGED <<flow, projectId, stubborn, sinkFails, sideVars, error, saved, saveResult,
                 writerClosed, files>>
  /\ UNCHANGED graphVars

\* ------------------------------------------------------------------- Next
Next ==
  \/ RealStart
  \/ RealStartFails
  \/ designNode
  \/ designToolNode
  \/ designPostNode
  \/ designNudgeNode
  \/ engineerNode
  \/ engineerToolNode
  \/ engineerNudgeNode
  \/ qaNode
  \/ qaToolNode
  \/ qaNudgeNode
  \/ qaDecision
  \/ ModelFails
  \/ RecursionLimitError
  \/ GraphReturns
  \/ Persist
  \/ Finally
  \/ MockDesign
  \/ MockEngineer
  \/ MockQA

Spec == Init /\ [][Next]_vars

\* ============================================ the file tools, one call alone
\* lib/tools/file-manager.ts and lib/tools/str-replace.ts
Paths == {"/App.jsx", "/old.jsx"}

\* new_path is optional: it may be a path, the empty string or absent
NewPaths == Paths \cup {"", "undefined"}

\* JavaScript's !new_path: true of undefined and of the empty string
Falsy(x) == x \in {"", "undefined"}

FileManagerArgs ==
  [command : {"rename", "delete"}, path : Paths, new_path : NewPaths]

TextEditorArgs ==
  [command : {"view", "create", "str_replace", "insert", "undo_edit"},
   path : Paths, file_text : {"undefined", "text"}]

\* What one operation of the VirtualFileSystem answers. Its representation
\* is not known here: whether it succeeded and the paths it holds afterwards
\* are inputs. It returns, it does not throw.
FileSystemAnswers == [thrown : {FALSE}, ok : BOOLEAN, after : SUBSET Paths]

\* the string an operation of the VirtualFileSystem returns
Answered(answer) == IF answer.ok THEN "success message" ELSE "error string"

UndoEditError ==
  "Error: undo_edit command is not supported. Use str_replace to revert changes."

\* outcome of a call that did not reach the file system
Returned(fileSystem, result) ==
  [thrown |-> FALSE, called |-> <<>>, fs |-> fileSystem, result |-> result]

\* outcome of a call that ran one operation of the file system; nothing
\* around the operation catches what it throws
Called(operation, answer, result) ==
  [thrown |-> answer.thrown, called |-> operation, fs |-> answer.after,
   result |-> IF answer.thrown THEN "thrown" ELSE result]

executeFileManagerCommand_renamesAnyway(fileSystem, args, answer) ==
  CASE args.command = "rename" ->
         Called(<<"rename", args.path, args.new_path>>, answer,
                IF answer.ok
                THEN [success |-> TRUE,
                      message |-> <<"Successfully renamed", args.path,
                                    "to", args.new_path>>]
                ELSE [success |-> FALSE,
                      error |-> <<"Failed to rename", args.path,
                                  "to", args.new_path>>])
    [] args.command = "delete" ->
         Called(<<"deleteFile", args.path>>, answer,
                IF answer.ok
                THEN [success |-> TRUE,
                      message |-> <<"Successfully deleted", args.path>>]
                ELSE [success |-> FALSE,
                      error |-> <<"Failed to delete", args.path>>])

executeFileManagerCommand(fileSystem, args, answer) ==
  CASE args.command = "rename" ->
         IF Falsy(args.new_path)
         THEN Returned(fileSystem,
                       [success |-> FALSE,
                        error |-> <<"new_path is required for rename command">>])
         ELSE Called(<<"rename", args.path, args.new_path>>, answer,
                     IF answer.ok
                     THEN [success |-> TRUE,
                           message |-> <<"Successfully renamed", args.path,
                                         "to", args.new_path>>]
                     ELSE [success |-> FALSE,
                           error |-> <<"Failed to rename", args.path,
                                       "to", args.new_path>>])
    [] args.command = "delete" ->
         Called(<<"deleteFile", args.path>>, answer,
                IF answer.ok
                THEN [success |-> TRUE,
                      message |-> <<"Successfully deleted", args.path>>]
                ELSE [success |-> FALSE,
                      error |-> <<"Failed to delete", args.path>>])

\* file_text || ""
OrEmpty(x) == IF Falsy(x) THEN "" ELSE x

executeTextEditorCommand(fileSystem, args, answer) ==
  CASE args.command = "view" ->
         Called(<<"viewFile", args.path>>, answer, Answered(answer))
    [] args.command = "create" ->
         Called(<<"createFileWithParents", args.path, OrEmpty(args.file_text)>>,
                answer, Answered(answer))
    [] args.command = "str_replace" ->
         Called(<<"replaceInFile", args.path>>, answer, Answered(answer))
    [] args.command = "insert" ->
         Called(<<"insertInFile", args.path>>, answer, Answered(answer))
    [] args.command = "undo_edit" ->
         Returned(fileSystem, UndoEditError)

\* the variables of the run of a request, at rest while a tool is called alone
RunIdle ==
  /\ RunInit
  /\ flow = "real"
  /\ projectId = FALSE
  /\ stubborn = "none"
  /\ sinkFails = FALSE

ToolInit ==
  /\ RunIdle
  /\ ConcIdle
  /\ ExtraIdle
  /\ toolFs \in SUBSET Paths
  /\ toolCall = NoToolCall
  /\ toolOut = NoToolCall

ToolCalled(tool, args, answer, out) ==
  /\ toolCall' = [tool |-> tool, args |-> args, before |-> toolFs,
                  answer |-> answer]
  /\ toolOut' = [thrown |-> out.thrown, called |-> out.called,
                 result |-> out.result]
  /\ toolFs' = out.fs
  /\ UNCHANGED <<runVars, concVars, extraVars>>

\* buildFileManagerLangChainTool's func
FileManagerCall ==
  \E args \in FileManagerArgs, answer \in FileSystemAnswers :
    ToolCalled("file_manager", args, answer,
               executeFileManagerCommand(toolFs, args, answer))

\* buildStrReplaceLangChainTool's func
TextEditorCall ==
  \E args \in TextEditorArgs, answer \in FileSystemAnswers :
    ToolCalled("str_replace_editor", args, answer,
               executeTextEditorCommand(toolFs, args, answer))

ToolNext == FileManagerCall \/ TextEditorCall

ToolSpec == ToolInit /\ [][ToolNext]_vars

\* ================================================================= claims
GraphStep ==
  \/ designNode \/ designToolNode \/ designPostNode \/ designNudgeNode
  \/ engineerNode \/ engineerToolNode \/ engineerNudgeNode
  \/ qaNode \/ qaToolNode \/ qaNudgeNode \/ qaDecision

CountNode(n) == Cardinality({i \in 1..Len(path) : path[i] = n})

WorkflowDoneCount ==
  Cardinality({i \in 1..Len(events) : events[i].type = "workflow_done"})

JustRan(n) == path # <<>> /\ Last(path) = n

\* C1: the number of graph steps never exceeds recursionLimit; at the limit
\* no node runs any more; a run stopped by the limit went through the catch
\* block and ends with the error workflow_done; and no run hangs before its writer is
\* closed (some step is always enabled until then).
C1_StepBudget ==
  /\ steps <= recursionLimit
  /\ Len(path) = steps
  /\ (steps = recursionLimit => ~ENABLED GraphStep)
  /\ (error = "recursion" =>
        /\ steps = recursionLimit
        /\ pc \in {"finally", "closed"})
  /\ (error = "recursion" /\ pc \in {"finally", "closed"} =>
        Last(events) = Ev("workflow_done", "orchestrator", "error"))
  /\ (pc # "closed" => ENABLED Next)

C1_Witness ==
  /\ pc = "closed"
  /\ error = "recursion"
  /\ steps = recursionLimit
  /\ CountNode("engineer_tools") + CountNode("qa_tools") > 30

\* C2: a run never sends two workflow_done events, and once the try block
\* is left (finally, closed) it has sent exactly one, in the real and in the
\* mock flow, on the success path and on every failure path.
C2_ExactlyOneWorkflowDone ==
  /\ WorkflowDoneCount <= 1
  /\ (pc \in {"persist", "finally", "closed"} => WorkflowDoneCount = 1)

C2_Witness ==
  /\ pc = "closed"
  /\ flow = "real"
  /\ saved
  /\ error = ""
  /\ WorkflowDoneCount = 1

\* C3: no retry counter exceeds MAX_RETRIES, and with a phase's counter at
\* MAX_RETRIES the node selected next is never that phase's nudge node.
C3_RetryCap ==
  /\ designRetries <= MAX_RETRIES
  /\ engineerRetries <= MAX_RETRIES
  /\ qaRetries <= MAX_RETRIES
  /\ (designRetries >= MAX_RETRIES => node # "design_nudge")
  /\ (engineerRetries >= MAX_RETRIES => node # "engineer_nudge")
  /\ (qaRetries >= MAX_RETRIES => node # "qa_nudge")

\* the qa router ran with its counter at the cap and chose the decision
C3_Witness ==
  /\ JustRan("qa")
  /\ qaRetries = MAX_RETRIES
  /\ ~HasToolCalls(Last(messages))
  /\ node = "qa_decision"

\* C4: iterationCount never exceeds MAX_ITERATIONS, and the revision
\* decision that brings the count to MAX_ITERATIONS routes to END whatever
\* verdict it found.
C4_IterationCap ==
  /\ iterationCount <= MAX_ITERATIONS
  /\ (JustRan("qa_decision") /\ iterationCount >= MAX_ITERATIONS => node = END)

\* the last allowed decision found NEEDS REVISION and still ended the run
C4_Witness ==
  /\ JustRan("qa_decision")
  /\ iterationCount = MAX_ITERATIONS
  /\ Last(decisions).needsRevision
  /\ node = END

\* C5: after an agent step the node selected is the one the routing table
\* gives for (last turn is an agent turn with actions, the phase's own retry
\* counter), and for nothing else.
RoutingTable(phase, hasActions, retryCount) ==
  IF hasActions THEN
    CASE phase = "design" -> "design_tools"
      [] phase = "engineer" -> "engineer_tools"
      [] phase = "qa" -> "qa_tools"
  ELSE IF retryCount < MAX_RETRIES THEN
    CASE phase = "design" -> "design_nudge"
      [] phase = "engineer" -> "engineer_nudge"
      [] phase = "qa" -> "qa_nudge"
  ELSE
    CASE phase = "design" -> "engineer"
      [] phase = "engineer" -> "qa"
      [] phase = "qa" -> "qa_decision"

LastTurnHasActions ==
  /\ messages # <<>>
  /\ Last(messages).type = "ai"
  /\ Last(messages).calls # <<>>

C5_RouterIsTable ==
  /\ (JustRan("design") =>
        node = RoutingTable("design", LastTurnHasActions, designRetries))
  /\ (JustRan("engineer") =>
        node = RoutingTable("engineer", LastTurnHasActions, engineerRetries))
  /\ (JustRan("qa") =>
        node = RoutingTable("qa", LastTurnHasActions, qaRetries))

\* the engineer router took its third branch in a second activation
C5_Witness ==
  /\ JustRan("engineer")
  /\ iterationCount = 1
  /\ engineerRetries = MAX_RETRIES
  /\ ~LastTurnHasActions
  /\ node = "qa"

\* C6: after a phase's tool node, the next agent step is that phase's own
\* agent step, and the design phase hands over to the engineer only from
\* the design router.
AgentNodes == {"design", "engineer", "qa"}

AgentOfTools(n) ==
  CASE n = "design_tools" -> "design"
    [] n = "engineer_tools" -> "engineer"
    [] n = "qa_tools" -> "qa"

C6_ToolsReturnToOwnAgent ==
  /\ \A i \in 1..Len(path) :
       path[i] \in {"design_tools", "engineer_tools", "qa_tools"} =>
         LET later == {j \in (i+1)..Len(path) : path[j] \in AgentNodes}
         IN  later # {} =>
               path[CHOOSE j \in later : \A k \in later : j <= k]
                 = AgentOfTools(path[i])
  /\ \A i \in 1..(Len(path) - 1) :
       path[i+1] = "engineer"
       /\ path[i] \in {"design", "design_tools", "design_post", "design_nudge"}
       => path[i] = "design"

C8_NoVerdictMeansRevision ==
  JustRan("qa_decision") /\ ~Last(decisions).found =>
    IF Last(decisions).entry + 1 < MAX_ITERATIONS
    THEN node = "engineer"
    ELSE node = END

\* C9: Scenario A.  The first reply of every phase requests a tool and
\* every decision found APPROVED.
FirstReplyHasCalls(agent) ==
  LET mine == {i \in 1..Len(messages) :
                 messages[i].type = "ai" /\ messages[i].agent = agent}
  IN  /\ mine # {}
      /\ messages[CHOOSE i \in mine : \A k \in mine : i <= k].calls # <<>>

Activations(agent, ownNodes) ==
  Cardinality({i \in 1..Len(path) :
                 path[i] = agent /\ (i = 1 \/ path[i-1] \notin ownNodes)})

EngineerActivations ==
  Activations("engineer", {"engineer", "engineer_tools", "engineer_nudge"})

QAActivations == Activations("qa", {"qa", "qa_tools", "qa_nudge"})

ScenarioA ==
  /\ node = END
  /\ \A a \in AgentNodes : FirstReplyHasCalls(a)
  /\ \A i \in 1..Len(decisions) :
       decisions[i].found /\ ~decisions[i].needsRevision

ReEntries ==
  Cardinality({i \in 1..(Len(path) - 1) :
                 path[i] = "qa_decision" /\ path[i+1] = "engineer"})

ScenarioB ==
  /\ node = END
  /\ decisions # <<>>
  /\ decisions[1].needsRevision
  /\ Len(decisions) >= 2 =>
       decisions[2].found /\ ~decisions[2].needsRevision

OwnNodes(agent) ==
  CASE agent = "design" -> {"design", "design_tools", "design_post",
                            "design_nudge"}
    [] agent = "engineer" -> {"engineer", "engineer_tools", "engineer_nudge"}
    [] agent = "qa" -> {"qa", "qa_tools", "qa_nudge"}

NudgeOf(agent) ==
  CASE agent = "design" -> "design_nudge"
    [] agent = "engineer" -> "engineer_nudge"
    [] agent = "qa" -> "qa_nudge"

AdvanceOf(agent) ==
  CASE agent = "design" -> "engineer"
    [] agent = "engineer" -> "qa"
    [] agent = "qa" -> "qa_decision"

RetriesOf(agent) ==
  CASE agent = "design" -> designRetries
    [] agent = "engineer" -> engineerRetries
    [] agent = "qa" -> qaRetries

ActivationStart(agent) ==
  CHOOSE i \in 1..(Len(path) + 1) :
    /\ \A j \in i..Len(path) : path[j] \in OwnNodes(agent)
    /\ (i > 1 => path[i-1] \notin OwnNodes(agent))

InActivation(agent, n) ==
  Cardinality({j \in ActivationStart(agent)..Len(path) : path[j] = n})

NeverRequestsTool(agent) ==
  \A i \in 1..Len(messages) :
    messages[i].type = "ai" /\ messages[i].agent = agent
      => messages[i].calls = <<>>

\* a phase whose model has requested no tool has just advanced
AdvancedWithoutTool(agent) ==
  /\ JustRan(agent)
  /\ node = AdvanceOf(agent)
  /\ NeverRequestsTool(agent)

\* C11 as claimed: whenever a phase whose model never requested a tool
\* advances to the next phase, this activation of the phase was nudged
\* exactly MAX_RETRIES times, its agent step ran exactly MAX_RETRIES + 1
\* times, and the phase's retry counter is MAX_RETRIES.
C11_NoToolPhase ==
  \A agent \in AgentNodes :
    AdvancedWithoutTool(agent) =>
      /\ InActivation(agent, NudgeOf(agent)) = MAX_RETRIES
      /\ InActivation(agent, agent) = MAX_RETRIES + 1
      /\ RetriesOf(agent) = MAX_RETRIES

\* the same, for the first activation of each phase only
C11_FirstActivation ==
  \A agent \in AgentNodes :
    AdvancedWithoutTool(agent) /\ CountNode(agent) = InActivation(agent, agent)
      => /\ InActivation(agent, NudgeOf(agent)) = MAX_RETRIES
         /\ InActivation(agent, agent) = MAX_RETRIES + 1
         /\ RetriesOf(agent) = MAX_RETRIES

\* C12: Scenario D.  The tool node of a phase has just run the calls of the
\* phase's last reply, and one of them failed.
ToolsOf(agent) ==
  CASE agent = "design" -> "design_tools"
    [] agent = "engineer" -> "engineer_tools"
    [] agent = "qa" -> "qa_tools"

\* transcript positions after the last AI message: the last tool results
LastToolResults ==
  {i \in 1..Len(messages) :
     /\ messages[i].type = "tool"
     /\ \A j \in i..Len(messages) : messages[j].type = "tool"}

ToolCallFailed(agent) ==
  /\ pc = "graph"
  /\ JustRan(ToolsOf(agent))
  /\ \E i \in 1..Len(messages) :
       /\ messages[i].type = "ai"
       /\ \A j \in (i+1)..Len(messages) : messages[j].type = "tool"
       /\ \E k \in 1..Len(messages[i].calls) :
            ToolResult(messages[i].calls[k]) = "err"

\* C12 as claimed: after a failing tool call the transcript holds a tool
\* result carrying the error, the agent step of the phase that requested the
\* call is the node that runs next (the run goes on, it has not failed).
C12_ToolErrorReturnsToAgent ==
  \A agent \in AgentNodes :
    ToolCallFailed(agent) =>
      /\ \E i \in LastToolResults :
           messages[i].content = "err" /\ messages[i].agent = agent
      /\ node = agent
      /\ error = ""

\* the same, for the engineer and the qa phase only
C12_EngineerAndQA ==
  \A agent \in {"engineer", "qa"} :
    ToolCallFailed(agent) =>
      /\ \E i \in LastToolResults :
           messages[i].content = "err" /\ messages[i].agent = agent
      /\ node = agent
      /\ error = ""

\* C13: Scenario E, observer independence.  ReplayStep runs one node of the
\* graph again as a function of the graph state before the step and of the
\* transcript after it alone: the node takes what it appended from msgs (the
\* model's reply, the tools' results) instead of producing it.  It never
\* looks at the event sink, so two runs with the same model and tool
\* behaviour replay, step after step, to the same nodes and file system.
AgentOfNudge(n) ==
  CASE n = "design_nudge" -> "design"
    [] n = "engineer_nudge" -> "engineer"
    [] n = "qa_nudge" -> "qa"

RouteOf(agent, msgs, retries) ==
  CASE agent = "design" -> routeDesign(msgs, retries)
    [] agent = "engineer" -> routeEngineer(msgs, retries)
    [] agent = "qa" -> routeQA(msgs, retries)

\* the part of the state the graph's routing and the file system make up
GraphState ==
  [node |-> node, at |-> Len(messages), iter |-> iterationCount,
   fs |-> files,
   retries |-> [a \in AgentNodes |-> RetriesOf(a)]]

ReplayStep(st, msgs) ==
  LET n    == st.node
      seen == SubSeq(msgs, 1, st.at)
  IN  CASE n \in AgentNodes ->
             [st EXCEPT !.at = st.at + 1,
                        !.node = RouteOf(n, SubSeq(msgs, 1, st.at + 1),
                                         st.retries[n])]
        [] n \in {"design_tools", "engineer_tools", "qa_tools"} ->
             [st EXCEPT !.at = st.at + Len(msgs[st.at].calls),
                        !.fs = FileSystemAfter(st.fs, seen),
                        !.node = IF n = "design_tools" THEN "design_post"
                                 ELSE AgentOfTools(n)]
        [] n \in {"design_nudge", "engineer_nudge", "qa_nudge"} ->
             [st EXCEPT !.at = st.at + 1,
                        !.retries[AgentOfNudge(n)] = @ + 1,
                        !.node = AgentOfNudge(n)]
        [] n = "design_post" -> [st EXCEPT !.node = "engineer"]
        [] n = "qa_decision" ->
             LET d == qaDecisionNode(seen, st.iter)
             IN  [st EXCEPT !.iter = d.iterationCount,
                            !.node = routeQADecision(d.currentAgent)]

\* a graph step is the replayed step; any other step of the real flow,
\* once the request is in the transcript, leaves the graph state alone
C13_Step ==
  flow = "real" /\ messages # <<>> =>
    IF steps' # steps
    THEN /\ path' = Append(path, node)
         /\ Len(messages') >= Len(messages)
         /\ GraphState' = ReplayStep(GraphState, messages')
    ELSE /\ path' = path
         /\ GraphState' = GraphState

\* C13: a failing event sink never aborts a run (no run fails on an emit)
\* and never changes it: nothing is delivered when every write fails,
\* everything when none does, and either way every step is the step the
\* transcript replays to: same node run, same node selected next, same file
\* system, same counters.
C13_ObserverIndependence ==
  /\ [](error # "emit" /\ delivered = (IF sinkFails THEN <<>> ELSE events))
  /\ [][C13_Step]_vars

\* a run whose every write failed went through a revision and ended well
C13_Witness ==
  /\ sinkFails
  /\ flow = "real"
  /\ pc = "closed"
  /\ error = ""
  /\ Len(decisions) = 2
  /\ files # {}
  /\ doneFiles = <<files>>
  /\ events # <<>>
  /\ delivered = <<>>

\* C14: after an agent step of the engineer or the qa phase, what was passed
\* to the model is the original user turn (position 1) followed by exactly
\* the turns from the phase's start index on (0-based, so positions above
\* it), in transcript order; the step's own reply is the last message now.
StartIdxOf(agent) ==
  CASE agent = "engineer" -> engineerStartIdx
    [] agent = "qa" -> qaStartIdx

C14_ScopedInput ==
  \A agent \in {"engineer", "qa"} :
    JustRan(agent) =>
      /\ StartIdxOf(agent) >= 1
      /\ modelInput # <<>>
      /\ modelInput[1] = 1
      /\ messages[1] = Msg("human", "user", <<>>, "request")
      /\ \A k \in 2..Len(modelInput) : modelInput[k] > StartIdxOf(agent)
      /\ {modelInput[k] : k \in 2..Len(modelInput)}
           = (StartIdxOf(agent) + 1)..(Len(messages) - 1)
      /\ \A k \in 2..(Len(modelInput) - 1) : modelInput[k] < modelInput[k+1]

\* the qa step ran on its own earlier turns, with turns before its start
\* index in the transcript that were not passed
C14_Witness ==
  /\ JustRan("qa")
  /\ qaStartIdx > 3
  /\ Len(modelInput) >= 4
  /\ modelInput[2] = qaStartIdx + 1

\* C15 as claimed: after any agent step, every turn that was passed to the
\* model other than the original user turn belongs to the phase's current
\* activation: from that turn to the end of the transcript every turn was
\* produced by this phase.
C15_OwnActivationOnly ==
  \A agent \in AgentNodes :
    JustRan(agent) =>
      \A k \in 1..Len(modelInput) :
        modelInput[k] # 1 =>
          \A j \in modelInput[k]..Len(messages) : messages[j].agent = agent

\* the same, except for the qa phase once a revision was requested
C15_UntilRevision ==
  \A agent \in AgentNodes :
    JustRan(agent) /\ ~(agent = "qa" /\ QAActivations > 1) =>
      \A k \in 1..Len(modelInput) :
        modelInput[k] # 1 =>
          \A j \in modelInput[k]..Len(messages) : messages[j].agent = agent

\* C16: engineerStartIdx changes in two places only.  The first engineer
\* step of an activation finds it unset (-1) and sets it to the transcript
\* length at that moment; later engineer steps of the activation and every
\* other node leave it alone; the revision decision resets it to -1 when it
\* routes back to the engineer, and only then.
FirstEngineerStep ==
  /\ path' = Append(path, "engineer")
  /\ Last(path) \notin OwnNodes("engineer")

DecisionRoutesBack ==
  /\ path' = Append(path, "qa_decision")
  /\ node' = "engineer"

C16_Step ==
  /\ (FirstEngineerStep =>
        engineerStartIdx = -1 /\ engineerStartIdx' = Len(messages))
  /\ (DecisionRoutesBack => engineerStartIdx' = -1)
  /\ (~FirstEngineerStep /\ ~DecisionRoutesBack =>
        engineerStartIdx' = engineerStartIdx)

C16_StartIndex == [][C16_Step]_vars

\* the first engineer step of the second activation has set the start index
\* anew, past the turns of the first activation and of the review
C16_Witness ==
  /\ JustRan("engineer")
  /\ EngineerActivations = 2
  /\ InActivation("engineer", "engineer") = 1
  /\ engineerStartIdx = Len(messages) - 1
  /\ engineerStartIdx > 3

\* C17 as claimed: when the revision decision routes back, engineerRetries
\* is 0, and an engineer step of the revision pass that requests no tool is
\* followed by a nudge as long as that pass was not nudged MAX_RETRIES times.
C17_RetriesResetOnRevision ==
  /\ (JustRan("qa_decision") /\ node = "engineer" => engineerRetries = 0)
  /\ (/\ JustRan("engineer")
      /\ EngineerActivations > 1
      /\ ~LastTurnHasActions
      /\ InActivation("engineer", "engineer_nudge") < MAX_RETRIES
      => node = "engineer_nudge")

\* C18: the transcript is append-only: whatever step is taken, the
\* transcript before it is a prefix of the transcript after it.
IsPrefix(s, t) == Len(s) <= Len(t) /\ SubSeq(t, 1, Len(s)) = s

C18_AppendOnly == [][IsPrefix(messages, messages')]_vars

\* every kind of node has run and the transcript has grown with them
C18_Witness ==
  /\ \A n \in {"design", "design_tools", "design_post", "engineer",
               "engineer_tools", "engineer_nudge", "qa", "qa_tools",
               "qa_nudge", "qa_decision"} : CountNode(n) >= 1
  /\ Len(messages) >= 10

\* C19: the edges of the graph, and the order of the phases they impose.
GraphEdges ==
  { <<"design", "design_tools">>, <<"design", "design_nudge">>,
    <<"design", "engineer">>, <<"design_tools", "design_post">>,
    <<"design_post", "engineer">>, <<"design_nudge", "design">>,
    <<"engineer", "engineer_tools">>, <<"engineer", "engineer_nudge">>,
    <<"engineer", "qa">>, <<"engineer_tools", "engineer">>,
    <<"engineer_nudge", "engineer">>,
    <<"qa", "qa_tools">>, <<"qa", "qa_nudge">>, <<"qa", "qa_decision">>,
    <<"qa_tools", "qa">>, <<"qa_nudge", "qa">>,
    <<"qa_decision", "engineer">>, <<"qa_decision", END>> }

\* C19: a run starts at design and moves along graph edges only; a design
\* step precedes every engineer step, every review activation is entered
\* from an engineer step, the decision only from a qa step, and END (done)
\* only from the decision.
C19_PhaseOrder ==
  /\ (path = <<>> => node = "design")
  /\ (path # <<>> => path[1] = "design" /\ <<Last(path), node>> \in GraphEdges)
  /\ \A i \in 1..(Len(path) - 1) : <<path[i], path[i+1]>> \in GraphEdges
  /\ \A i \in 1..Len(path) :
       /\ path[i] = "engineer" => \E j \in 1..(i-1) : path[j] = "design"
       /\ path[i] = "qa" =>
            i > 1 /\ (path[i-1] \in OwnNodes("qa") \/ path[i-1] = "engineer")
       /\ path[i] = "qa_decision" => i > 1 /\ path[i-1] = "qa"
  /\ (node = END => JustRan("qa_decision"))
  /\ (currentAgent = "done" => node = END)

\* a run with a revision has reached done
C19_Witness ==
  /\ node = END
  /\ currentAgent = "done"
  /\ ReEntries = 1
  /\ QAActivations = 2
  /\ pc = "closed"

\* C20: whatever is thrown while the graph executes is caught: the run is
\* then past the try block with the error workflow_done as its last and
\* only workflow_done event; that event carries the file system as it is
\* then (the files payload is left out when the file system is empty); the
\* writer is closed next, and no run is closed without its workflow_done.
C20_FailureIsTerminalEvent ==
  /\ (error # "" =>
        /\ pc \in {"finally", "closed"}
        /\ Last(events) = Ev("workflow_done", "orchestrator", "error")
        /\ WorkflowDoneCount = 1)
  /\ (error # "" /\ flow = "real" =>
        doneFiles = (IF files = {} THEN <<>> ELSE <<files>>))
  /\ (pc = "finally" => ENABLED Finally)
  /\ (pc = "closed" => writerClosed /\ WorkflowDoneCount = 1)
  /\ (pc = "graph" /\ node # END /\ steps = recursionLimit =>
        ENABLED RecursionLimitError)

\* a model call failed after the engineer had created a file
C20_Witness ==
  /\ error = "model"
  /\ flow = "real"
  /\ pc = "closed"
  /\ writerClosed
  /\ files = {"/App.jsx"}
  /\ doneFiles = <<files>>
  /\ Last(events) = Ev("workflow_done", "orchestrator", "error")

\* C21 as claimed: a model call that fails does not leave the agent step as
\* an exception: nothing reaches the flow's catch block from it, the run is
\* still in the graph, and the transcript ends with the error turn.
C21_ModelFailureBecomesTurn ==
  error = "model" =>
    /\ pc = "graph"
    /\ messages # <<>>
    /\ Last(messages).content = "error"
    /\ \E i \in 1..Len(events) : events[i].type = "phase_failed"

\* C22: an agent step appends exactly one turn, the model's reply; the
\* events it sends start with its one agent_start, and its agent_tool_call
\* events are the calls of the reply, one each, in the order of the calls.
NewEvents == SubSeq(events', Len(events) + 1, Len(events'))

C22_Step ==
  \A agent \in AgentNodes :
    path' = Append(path, agent) =>
      LET reply  == Last(messages')
          starts == SelectSeq(NewEvents, LAMBDA e : e.type = "agent_start")
          calls  == SelectSeq(NewEvents, LAMBDA e : e.type = "agent_tool_call")
      IN  /\ Len(messages') = Len(messages) + 1
          /\ SubSeq(messages', 1, Len(messages)) = messages
          /\ reply.type = "ai" /\ reply.agent = agent
          /\ NewEvents # <<>>
          /\ NewEvents[1] = Ev("agent_start", agent, "")
          /\ Len(starts) = 1
          /\ Len(calls) = Len(reply.calls)
          /\ \A i \in 1..Len(calls) :
               calls[i] = Ev("agent_tool_call", agent, reply.calls[i])

C22_AgentStepEvents == [][C22_Step]_vars

\* the engineer's reply requested two tools, reported in their order
C22_Witness ==
  /\ JustRan("engineer")
  /\ pc = "graph"
  /\ Last(messages).calls = <<"rename_missing", "create">>
  /\ Len(events) >= 3
  /\ events[Len(events) - 2] = Ev("agent_start", "engineer", "")
  /\ events[Len(events) - 1] = Ev("agent_tool_call", "engineer", "rename_missing")
  /\ Last(events) = Ev("agent_tool_call", "engineer", "create")

\* C23: a tool node appends one tool result per call of the last reply, in
\* the order of the calls, for the calls that fail as for those that succeed.
C23_Step ==
  \A agent \in AgentNodes :
    path' = Append(path, ToolsOf(agent)) =>
      LET calls == Last(messages).calls
      IN  /\ Len(messages') = Len(messages) + Len(calls)
          /\ SubSeq(messages', 1, Len(messages)) = messages
          /\ \A i \in 1..Len(calls) :
               /\ messages'[Len(messages) + i].type = "tool"
               /\ messages'[Len(messages) + i].agent = agent
               /\ messages'[Len(messages) + i].content = ToolResult(calls[i])

C23_OneResultPerCall == [][C23_Step]_vars

\* two calls, the first failed, the second succeeded: two results in order
C23_Witness ==
  /\ JustRan("engineer_tools")
  /\ Len(messages) >= 3
  /\ messages[Len(messages) - 2].calls = <<"rename_missing", "create">>
  /\ messages[Len(messages) - 1].content = "err"
  /\ Last(messages).content = "ok"

\* C24 as claimed: the event sink has received one tool_result event for
\* every tool call a tool node has executed.
ToolResultEvents ==
  Cardinality({i \in 1..Len(events) : events[i].type = "tool_result"})

ExecutedToolCalls ==
  Cardinality({i \in 1..Len(messages) : messages[i].type = "tool"})

C24_ToolResultEvents == ToolResultEvents = ExecutedToolCalls

\* C26: the verdict scan reads the last ScanWindow messages and nothing
\* else: on the tail alone it gives what it gives on the transcript, the
\* decision's verdict and notes are the scan's whatever iterationCount is,
\* and scanning again after the decision ran (the transcript is as it was)
\* gives the verdict and the notes the decision took.
TranscriptTail(msgs) ==
  SubSeq(msgs, IF Len(msgs) > ScanWindow THEN Len(msgs) - ScanWindow + 1 ELSE 1,
         Len(msgs))

C26_ScanIsFunctionOfTail ==
  /\ ReviewScan(messages) = ReviewScan(TranscriptTail(messages))
  /\ \A c \in 0..MAX_ITERATIONS :
       qaDecisionNode(messages, c).reviewNotes
         = ReviewScan(TranscriptTail(messages)).reviewNotes
  /\ (JustRan("qa_decision") =>
        /\ reviewNotes = ReviewScan(messages).reviewNotes
        /\ Last(decisions).needsRevision = ReviewScan(messages).needsRevision
        /\ Last(decisions).found = (ReviewScan(messages).reviewNotes # ""))

\* a decision found its verdict in a transcript longer than the window
C26_Witness ==
  /\ JustRan("qa_decision")
  /\ Last(decisions).found
  /\ Len(messages) > ScanWindow
  /\ reviewNotes = "needsrev"

\* C27 as claimed: the verdict a decision uses comes from a tool result of
\* the review activation that has just ended: from the message the scan
\* stopped at to the end of the transcript every message is the qa phase's.
VerdictPosition(msgs) ==
  LET hits == {i \in 1..Len(msgs) :
                 i > Len(msgs) - ScanWindow /\ IsVerdict(msgs[i])}
  IN  IF hits = {} THEN 0 ELSE CHOOSE i \in hits : \A j \in hits : j <= i

C27_VerdictFromCurrentReview ==
  JustRan("qa_decision") /\ Last(decisions).found =>
    \A j \in VerdictPosition(messages)..Len(messages) :
      messages[j].agent = "qa"

\* C28: the engineer phase is activated at most MAX_ITERATIONS (2) times and
\* the revision decision runs at most MAX_ITERATIONS times in a run.
C28_RevisionLoopCap ==
  /\ MAX_ITERATIONS = 2
  /\ EngineerActivations <= MAX_ITERATIONS
  /\ QAActivations <= MAX_ITERATIONS
  /\ CountNode("qa_decision") <= MAX_ITERATIONS
  /\ Len(decisions) <= MAX_ITERATIONS

\* both reviews asked for a revision; the run ended after the second
C28_Witness ==
  /\ node = END
  /\ EngineerActivations = 2
  /\ CountNode("qa_decision") = 2
  /\ decisions[1].needsRevision
  /\ decisions[2].needsRevision

\* C29: a nudge step appends one user-role turn, adds one to the retry
\* counter of its phase, leaves the other counters, iterationCount,
\* designSpec, reviewNotes, the start indexes, currentAgent, the file system
\* and the events alone, and selects the phase's agent step.
C29_Step ==
  \A agent \in AgentNodes :
    path' = Append(path, NudgeOf(agent)) =>
      /\ Len(messages') = Len(messages) + 1
      /\ SubSeq(messages', 1, Len(messages)) = messages
      /\ Last(messages').type = "human"
      /\ RetriesOf(agent)' = RetriesOf(agent) + 1
      /\ \A other \in AgentNodes \ {agent} :
           RetriesOf(other)' = RetriesOf(other)
      /\ UNCHANGED <<iterationCount, designSpec, reviewNotes, engineerStartIdx,
                     qaStartIdx, currentAgent, files, events>>
      /\ node' = agent

C29_NudgeFrame == [][C29_Step]_vars

\* the engineer was nudged in a run whose design phase had been nudged too
C29_Witness ==
  /\ JustRan("engineer_nudge")
  /\ pc = "graph"
  /\ node = "engineer"
  /\ Last(messages) = Msg("human", "engineer", <<>>, "nudge")
  /\ engineerRetries = 1
  /\ designRetries = 1
  /\ qaRetries = 0
  /\ engineerStartIdx = Len(messages) - 2

\* C30: a call of a file tool returns a value and throws nothing; file_manager
\* returns success false with an error when the rename or the delete failed
\* and when a rename has no new_path, and in this last case it calls no
\* operation of the file system, which stays as it was; the text editor's
\* undo_edit returns its error string, calls no operation and leaves the file
\* system as it was.
C30_FileToolsReturn ==
  toolCall.tool # "none" =>
    /\ ~toolOut.thrown
    /\ toolCall.tool = "file_manager" =>
         /\ toolOut.result.success \in BOOLEAN
         /\ (toolCall.args.command = "rename" /\ Falsy(toolCall.args.new_path)) =>
              /\ toolOut.result.success = FALSE
              /\ "error" \in DOMAIN toolOut.result
              /\ toolOut.called = <<>>
              /\ toolFs = toolCall.before
         /\ (toolOut.called # <<>> /\ ~toolCall.answer.ok) =>
              /\ toolOut.result.success = FALSE
              /\ "error" \in DOMAIN toolOut.result
         /\ toolOut.result.success => "message" \in DOMAIN toolOut.result
    /\ (toolCall.tool = "str_replace_editor"
          /\ toolCall.args.command = "undo_edit") =>
         /\ toolOut.result = UndoEditError
         /\ toolOut.called = <<>>
         /\ toolFs = toolCall.before

\* a rename without new_path on a file system that answers by dropping its
\* files: refused before the file system is reached
C30_Witness ==
  /\ toolCall.tool = "file_manager"
  /\ toolCall.args.command = "rename"
  /\ toolCall.args.new_path = "undefined"
  /\ toolCall.before = Paths
  /\ toolCall.answer.after = {}
  /\ toolOut.result.success = FALSE
  /\ toolFs = Paths

\* ================================================== two requests at once
\* Each POST builds its own file system, graph and stream; the two runs
\* alternate at the awaits of their nodes.
\* the state of the request that is running now
Running ==
  [node |-> node, steps |-> steps, messages |-> messages,
   designSpec |-> designSpec, reviewNotes |-> reviewNotes,
   currentAgent |-> currentAgent, iterationCount |-> iterationCount,
   designRetries |-> designRetries, engineerRetries |-> engineerRetries,
   qaRetries |-> qaRetries, engineerStartIdx |-> engineerStartIdx,
   qaStartIdx |-> qaStartIdx, events |-> events, delivered |-> delivered,
   path |-> path, modelInput |-> modelInput, systemMsg |-> systemMsg,
   decisions |-> decisions]

\* the run of a request, its file system apart
RunOf(r) == IF r = active THEN Running ELSE parked

\* the contents of the file system a request's tools were built on
FilesOf(r) ==
  IF fileSystemOf[r] = fileSystemOf[active] THEN files
  ELSE fsStore[fileSystemOf[r]]

ConcInit ==
  /\ RunIdle
  /\ ToolIdle
  /\ ExtraIdle
  /\ active = 1
  /\ fileSystemOf = [r \in Requests |-> NewVirtualFileSystem(r)]
  /\ fsStore = [i \in Requests |-> {}]
  /\ parked = NoRun

\* both requests are accepted: each run has its request in its transcript
\* and the orchestrator's agent_start on its stream; between them the two
\* models request tools in MaxConcToolTurns turns
ConcStart ==
  /\ pc = "start"
  /\ Send(<<Ev("agent_start", "orchestrator", "")>>)
  /\ messages' = <<Msg("human", "user", <<>>, "request")>>
  /\ pc' = "graph"
  /\ toolTurns' = MaxToolTurns - MaxConcToolTurns
  /\ parked' = [Running EXCEPT !.messages = messages',
                               !.events = events',
                               !.delivered = delivered']
  /\ UNCHANGED <<flow, projectId, stubborn, sinkFails, error, saved, saveResult,
                 writerClosed, files, doneFiles, node, steps, designSpec,
                 reviewNotes, currentAgent, iterationCount, designRetries,
                 engineerRetries, qaRetries, engineerStartIdx, qaStartIdx,
                 path, modelInput, systemMsg, decisions, active, fileSystemOf, fsStore,
                 toolFs, toolCall, toolOut, extraVars>>

\* the running request awaits and the other request's continuation runs
Switch ==
  /\ pc = "graph"
  /\ active' = CHOOSE r \in Requests : r # active
  /\ parked' = Running
  /\ fsStore' = [fsStore EXCEPT ![fileSystemOf[active]] = files]
  /\ files' = fsStore'[fileSystemOf[active']]
  /\ node' = parked.node
  /\ steps' = parked.steps
  /\ messages' = parked.messages
  /\ designSpec' = parked.designSpec
  /\ reviewNotes' = parked.reviewNotes
  /\ currentAgent' = parked.currentAgent
  /\ iterationCount' = parked.iterationCount
  /\ designRetries' = parked.designRetries
  /\ engineerRetries' = parked.engineerRetries
  /\ qaRetries' = parked.qaRetries
  /\ engineerStartIdx' = parked.engineerStartIdx
  /\ qaStartIdx' = parked.qaStartIdx
  /\ events' = parked.events
  /\ delivered' = parked.delivered
  /\ path' = parked.path
  /\ modelInput' = parked.modelInput
  /\ systemMsg' = parked.systemMsg
  /\ decisions' = parked.decisions
  /\ UNCHANGED <<pc, flow, projectId, stubborn, sinkFails, error, saved, saveResult,
                 writerClosed, doneFiles, toolTurns, fileSystemOf,
                 toolFs, toolCall, toolOut, extraVars>>

ConcNext ==
  \/ ConcStart
  \/ Switch
  \/ designNode \/ designToolNode \/ designPostNode \/ designNudgeNode
  \/ engineerNode \/ engineerToolNode \/ engineerNudgeNode
  \/ qaNode \/ qaToolNode \/ qaNudgeNode \/ qaDecision

ConcSpec == ConcInit /\ [][ConcNext]_vars

\* what a transcript says was written: the file of a create call whose
\* tool results follow it
TranscriptWrites(msgs) ==
  IF \E i \in 1..(Len(msgs) - 1) :
       /\ msgs[i].type = "ai"
       /\ \E j \in 1..Len(msgs[i].calls) : msgs[i].calls[j] = "create"
  THEN {"/App.jsx"}
  ELSE {}

\* what the claim lists of a run: its transcript, counters, start indexes
\* and file system (and with them the node it is at)
Isolated(r) ==
  [run |-> RunOf(r), files |-> FilesOf(r)]

\* a step is a step of the running request only, and it is the step that
\* request's own transcript replays to; a switch changes no run
C25_Step ==
  pc = "graph" =>
    /\ \A r \in Requests :
         (r # active \/ active' # active) => Isolated(r)' = Isolated(r)
    /\ active' = active =>
         /\ steps' = steps + 1
         /\ GraphState' = ReplayStep(GraphState, messages')

\* C25: two runs interleaved at their awaits never touch each other's
\* transcript, retry counters, iterationCount, start indexes or file system:
\* a step changes the running request's state only, by the step its own
\* transcript determines, and at every moment the file system of each run
\* holds what that run's own transcript wrote.
C25_RunsAreIsolated ==
  /\ [](pc = "graph" =>
          \A r \in Requests : FilesOf(r) = TranscriptWrites(RunOf(r).messages))
  /\ [][C25_Step]_vars

\* both runs have ended; one wrote its file, the other was nudged in two
\* phases and its file system is empty
C25_Witness ==
  /\ pc = "graph"
  /\ \A r \in Requests : RunOf(r).node = END
  /\ \E r \in Requests :
       /\ FilesOf(r) = {"/App.jsx"}
       /\ \A o \in Requests \ {r} :
            /\ FilesOf(o) = {}
            /\ RunOf(o).designRetries = MAX_RETRIES
            /\ RunOf(o).qaRetries = MAX_RETRIES

\* C31: the engineer's model call carries the review notes exactly in a
\* revision activation: in the first activation reviewNotes is empty and
\* nothing is appended; after the revision decision routed back, the notes
\* appended are the non-empty content of a tool result of the transcript
\* that carries the NEEDS REVISION marker; and the design specification is
\* appended whenever it is not empty.
C31_RevisionContext ==
  /\ decisions = <<>> => reviewNotes = ""
  /\ systemMsg.prompt = "ENGINEER_SYSTEM_PROMPT" =>
       /\ systemMsg.contextMessage = designSpec
       /\ systemMsg.revisionContext = reviewNotes
       /\ iterationCount = 0 => systemMsg.revisionContext = ""
       /\ iterationCount > 0 =>
            /\ systemMsg.revisionContext # ""
            /\ Includes(systemMsg.revisionContext, "NEEDS REVISION")
            /\ \E i \in 1..Len(messages) :
                 /\ messages[i].type = "tool"
                 /\ messages[i].content = systemMsg.revisionContext
  /\ systemMsg.prompt \in {"DESIGN_SYSTEM_PROMPT", "QA_SYSTEM_PROMPT"} =>
       systemMsg.contextMessage = "" /\ systemMsg.revisionContext = ""

\* the engineer runs its revision pass with the design and the notes
C31_Witness ==
  /\ JustRan("engineer")
  /\ iterationCount = 1
  /\ systemMsg.contextMessage = "spec"
  /\ systemMsg.revisionContext = "needsrev"

\* C32: in both flows workflow_done is the last event handed to the stream
\* and the last one written to it: nothing follows it; the writer is closed
\* once, after workflow_done, by the finally block, whether or not the
\* observer is still connected, and nothing is sent once it is closed.
NothingAfterDone(evs) ==
  \A i \in 1..(Len(evs) - 1) : evs[i].type # "workflow_done"

C32_Step ==
  /\ writerClosed' # writerClosed =>
       /\ ~writerClosed
       /\ pc = "finally" /\ pc' = "closed"
       /\ events # <<>> /\ Last(events).type = "workflow_done"
       /\ events' = events /\ delivered' = delivered
  /\ writerClosed => UNCHANGED <<writerClosed, events, delivered>>

C32_DoneIsLast ==
  /\ [](/\ NothingAfterDone(events)
        /\ NothingAfterDone(delivered)
        /\ pc \in {"finally", "closed"} =>
             /\ Last(events).type = "workflow_done"
             /\ ~sinkFails => Last(delivered).type = "workflow_done"
        /\ writerClosed <=> pc = "closed")
  /\ [][C32_Step]_vars

\* the observer had disconnected, an agent's model call failed after its
\* agent_start, and the writer was closed after the error workflow_done
C32_Witness ==
  /\ flow = "real"
  /\ sinkFails
  /\ error = "model"
  /\ writerClosed
  /\ Len(events) >= 3
  /\ events[Len(events) - 1].type = "agent_start"
  /\ Last(events).type = "workflow_done"

\* C33: saveProjectState is called only with a projectId, only after the
\* success workflow_done was sent, never once something was caught; however
\* the call ends (saved, not authenticated, database failure logged), no
\* further event is sent and the run goes on to close its stream without an
\* error.
SuccessDone == Ev("workflow_done", "orchestrator", "files")

C33_Step ==
  saved' # saved =>
    /\ projectId
    /\ pc = "persist" /\ pc' = "finally"
    /\ error = "" /\ error' = ""
    /\ events # <<>> /\ Last(events) = SuccessDone
    /\ events' = events /\ delivered' = delivered /\ doneFiles' = doneFiles

C33_PersistAfterSuccess ==
  /\ [](/\ saved =>
             /\ projectId
             /\ error = ""
             /\ Last(events) = SuccessDone
             /\ saveResult \in {"saved", "logged", "not_authenticated"}
        /\ (~projectId \/ error # "") => ~saved /\ saveResult = ""
        /\ \A i \in 1..Len(events) :
             events[i] = Ev("workflow_done", "orchestrator", "error")
               => ~saved)
  /\ [][C33_Step]_vars

\* the database write failed inside saveProjectState: the stream was closed
\* after the success workflow_done, with no error
C33_Witness ==
  /\ saved
  /\ saveResult = "logged"
  /\ pc = "closed"
  /\ error = ""
  /\ Last(events) = SuccessDone

\* ============================================ the mock flow, run and rerun
\* A prompt is its words; what matters of a word is which of the keywords
\* it contains once lowered.
Words == {"Form", "card", "information", "button"}

MaxPromptLen == 2

Prompts == UNION {[1..n -> Words] : n \in 0..MaxPromptLen}

toLowerCase(word) == IF word = "Form" THEN "form" ELSE word

\* String.prototype.includes, on the words above
includes(word, key) ==
  CASE key = "form" -> word \in {"form", "information"}
    [] key = "card" -> word = "card"

detectComponent(prompt) ==
  LET lower == [i \in DOMAIN prompt |-> toLowerCase(prompt[i])]
  IN  IF \E i \in DOMAIN lower : includes(lower[i], "form")
      THEN [type |-> "form", name |-> "ContactForm"]
      ELSE IF \E i \in DOMAIN lower : includes(lower[i], "card")
      THEN [type |-> "card", name |-> "Card"]
      ELSE [type |-> "counter", name |-> "Counter"]

getComponentCode(componentType) == <<"component code", componentType>>

getAppCode(componentName) == <<"app code", componentName>>

\* `/components/${component.name}.jsx`
componentPath(name) ==
  CASE name = "ContactForm" -> "/components/ContactForm.jsx"
    [] name = "Card" -> "/components/Card.jsx"
    [] name = "Counter" -> "/components/Counter.jsx"

MockPaths ==
  {"/components/ContactForm.jsx", "/components/Card.jsx",
   "/components/Counter.jsx", "/App.jsx"}

Absent == <<"absent">>

OldContent == <<"old code">>

\* the VirtualFileSystem operations the mock flow calls
exists(fs, filePath) == fs[filePath] # Absent

updateFile(fs, filePath, content) == [fs EXCEPT ![filePath] = content]

createFileWithParents(fs, filePath, content) == [fs EXCEPT ![filePath] = content]

\* mutant: a file that is there is left as it is
MockWrite_keepsExisting(fs, filePath, content) ==
  IF exists(fs, filePath) THEN fs
  ELSE createFileWithParents(fs, filePath, content)

\* Create or update a file in the VFS
MockWrite(fs, filePath, content) ==
  IF exists(fs, filePath) THEN updateFile(fs, filePath, content)
  ELSE createFileWithParents(fs, filePath, content)

\* the two writes of the mock engineer
MockFileSystem(fs, prompt) ==
  LET component == detectComponent(prompt)
      written   == MockWrite(fs, componentPath(component.name),
                             getComponentCode(component.type))
  IN  MockWrite(written, "/App.jsx", getAppCode(component.name))

MaxMockRuns == 2

MockInit ==
  /\ RunIdle
  /\ ToolIdle
  /\ ConcIdle
  /\ SseIdle
  /\ ClientIdle
  /\ mockPrompt \in Prompts
  /\ mockFs \in [MockPaths -> {Absent, OldContent}]
  /\ mockStart = mockFs
  /\ mockFirst = <<>>
  /\ mockRuns = 0
  /\ mockEvents = <<>>

\* runMockMultiAgentFlow, from its first event to its workflow_done
MockRun ==
  /\ mockRuns < MaxMockRuns
  /\ mockFs' = MockFileSystem(mockFs, mockPrompt)
  /\ mockEvents' = MockDesignEvents \o MockEngineerEvents(2) \o MockQAEvents
  /\ mockRuns' = mockRuns + 1
  /\ mockFirst' = IF mockRuns = 0 THEN mockFs' ELSE mockFirst
  /\ UNCHANGED <<mockPrompt, mockStart>>
  /\ UNCHANGED <<runVars, toolVars, concVars, sseVars, clientVars>>

MockNext == MockRun

MockSpec == MockInit /\ [][MockNext]_vars

\* the agents of a sequence of events, each named once per stretch
AgentOrder(evs) ==
  LET starts == SelectSeq([i \in 1..Len(evs) |-> i],
                          LAMBDA i : i = 1 \/ evs[i].agent # evs[i - 1].agent)
  IN  [k \in 1..Len(starts) |-> evs[starts[k]].agent]

\* C34: a run of the mock flow writes the component file of its prompt and
\* /App.jsx, whether they were there or not, and no other file; a second
\* run on the file system the first left changes nothing; and every run
\* sends its events in the order orchestrator, design, engineer, QA,
\* workflow_done.
C34_MockIdempotent ==
  mockRuns >= 1 =>
    LET component == detectComponent(mockPrompt)
        own       == componentPath(component.name)
    IN  /\ mockFs[own] = getComponentCode(component.type)
        /\ mockFs["/App.jsx"] = getAppCode(component.name)
        /\ \A p \in MockPaths \ {own, "/App.jsx"} : mockFs[p] = mockStart[p]
        /\ mockFs = mockFirst
        /\ AgentOrder(mockEvents)
             = <<"orchestrator", "design", "engineer", "qa", "orchestrator">>
        /\ mockEvents[1].type = "agent_start"
        /\ Last(mockEvents).type = "workflow_done"
        /\ NothingAfterDone(mockEvents)

\* "Form" in capitals: the form component; its file and /App.jsx were there
\* and were overwritten, and the second run left what the first wrote
C34_Witness ==
  /\ mockRuns = 2
  /\ mockPrompt = <<"button", "Form">>
  /\ mockStart["/components/ContactForm.jsx"] = OldContent
  /\ mockStart["/App.jsx"] = OldContent
  /\ mockStart["/components/Card.jsx"] = Absent
  /\ mockFs["/components/ContactForm.jsx"] = getComponentCode("form")
  /\ mockFs["/components/Card.jsx"] = Absent

\* C35: the step after the design tools sets designSpec to the content of
\* the latest tool result carrying "Design spec created" and leaves it as it
\* was when there is none; no other step changes designSpec, so once the
\* engineer has started it is the same to the end of the run.
C35_Step ==
  /\ designSpec' # designSpec => path' = Append(path, "design_post")
  /\ path' = Append(path, "design_post") =>
       LET marked == {i \in 1..Len(messages) :
                        /\ messages[i].type = "tool"
                        /\ Includes(messages[i].content, "Design spec created")}
       IN  /\ marked = {} => designSpec' = designSpec
           /\ \A i \in marked :
                (\A j \in marked : j <= i) => designSpec' = messages[i].content
           /\ JustRan("design_tools")
  /\ CountNode("engineer") > 0 => designSpec' = designSpec

C35_DesignSpecFrame == [][C35_Step]_vars

\* a run that went through a revision ended with the design specification
\* the design phase left
C35_Witness ==
  /\ node = END
  /\ designSpec = "spec"
  /\ iterationCount = MAX_ITERATIONS
  /\ CountNode("design_post") = 1

\* C36: the design agent step runs at most MAX_RETRIES + 1 times in a run
\* and the design tool node at most once; so when the design agent never
\* called create_design_spec, a file view being all it requested, the
\* engineer starts with an empty design specification.
DesignNeverCalledSpecTool ==
  \A i \in 1..Len(messages) :
    (messages[i].type = "ai" /\ messages[i].agent = "design") =>
      \A j \in 1..Len(messages[i].calls) :
        messages[i].calls[j] # "create_design_spec"

EventIds == {"a", "e'"}

\* sendEvent: `data: ${JSON.stringify(event)}\n\n`
EventLine(id) == <<"d", ":", "{", id, "}">>

\* records that are no "data: <json>" line: no prefix, a prefix with text
\* that does not parse, and text that ends with a newline
JunkLines == {<<"x">>, <<"d", ":", "{", "x">>, <<"x", "n">>}

SseLines == {EventLine(id) : id \in EventIds} \cup JunkLines

MaxSseRecords == 2

RECURSIVE Flatten(_)
Flatten(ss) == IF ss = <<>> THEN <<>> ELSE Head(ss) \o Flatten(Tail(ss))

\* the text of the stream: every record is followed by "\n\n"
StreamText(lines) ==
  Flatten([i \in 1..Len(lines) |-> lines[i] \o <<"n", "n">>])

\* TextEncoder.encode
encode(text) ==
  Flatten([i \in 1..Len(text) |->
             IF text[i] = "e'" THEN <<"u1", "u2">> ELSE <<text[i]>>])

\* TextDecoder.decode(bytes, { stream }): the characters of the bytes; an
\* incomplete character at the end is held back when streaming and replaced
\* ("?") when not; a malformed sequence is replaced
RECURSIVE decode(_, _)
decode(bytes, stream) ==
  IF bytes = <<>> THEN [text |-> <<>>, pending |-> <<>>]
  ELSE IF Head(bytes) = "u1"
  THEN IF Len(bytes) = 1
       THEN IF stream THEN [text |-> <<>>, pending |-> <<"u1">>]
            ELSE [text |-> <<"?">>, pending |-> <<>>]
       ELSE IF bytes[2] = "u2"
       THEN LET rest == decode(Tail(Tail(bytes)), stream)
            IN  [rest EXCEPT !.text = <<"e'">> \o @]
       ELSE LET rest == decode(Tail(bytes), stream)
            IN  [rest EXCEPT !.text = <<"?">> \o @]
  ELSE LET rest == decode(Tail(bytes), stream)
       IN  [rest EXCEPT !.text = <<IF Head(bytes) = "u2" THEN "?"
                                  ELSE Head(bytes)>> \o @]

\* buffer.split("\n\n")
RECURSIVE split(_)
split(text) ==
  LET seps == {i \in 1..(Len(text) - 1) : text[i] = "n" /\ text[i + 1] = "n"}
  IN  IF seps = {} THEN <<text>>
      ELSE LET i == CHOOSE k \in seps : \A j \in seps : k <= j
           IN  <<SubSeq(text, 1, i - 1)>>
               \o split(SubSeq(text, i + 2, Len(text)))

\* String.prototype.trim
RECURSIVE trim(_)
trim(text) ==
  IF text = <<>> THEN text
  ELSE IF Head(text) = "n" THEN trim(Tail(text))
  ELSE IF Last(text) = "n" THEN trim(SubSeq(text, 1, Len(text) - 1))
  ELSE text

\* JSON.parse: the event of a JSON text, "throws" when it is none
JSONparse(text) ==
  LET t == trim(text)
  IN  IF Len(t) = 3 /\ t[1] = "{" /\ t[3] = "}" /\ t[2] \in EventIds
      THEN t[2]
      ELSE "throws"

\* parseSSEEvent: the event of a line, "null" when there is none
parseSSEEvent(line) ==
  IF ~(Len(line) >= 2 /\ line[1] = "d" /\ line[2] = ":") THEN "null"
  ELSE IF JSONparse(SubSeq(line, 3, Len(line))) = "throws" THEN "null"
  ELSE JSONparse(SubSeq(line, 3, Len(line)))

\* for (const line of lines) { const event = parseSSEEvent(line);
\* if (event) onEvent(event) }
OnEvents(lines) ==
  LET parsed == [i \in 1..Len(lines) |-> parseSSEEvent(lines[i])]
  IN  SelectSeq(parsed, LAMBDA e : e # "null")

\* one turn of consumeSSEStream's loop on the decoded text of a chunk
consumeChunk(buffer, text) ==
  LET lines == split(buffer \o text)
  IN  [events |-> OnEvents(SubSeq(lines, 1, Len(lines) - 1)),
       buffer |-> Last(lines)]

SseInit ==
  /\ RunIdle
  /\ ToolIdle
  /\ ConcIdle
  /\ MockIdle
  /\ ClientIdle
  /\ sseLines \in UNION {[1..n -> SseLines] : n \in 0..MaxSseRecords}
  /\ sseStream = encode(StreamText(sseLines))
  /\ sseDecoder = <<>>
  /\ sseBuffer = <<>>
  /\ sseEvents = <<>>
  /\ sseDone = FALSE

\* reader.read() resolves with a chunk: any non-empty stretch of the bytes
\* still to come
ReadChunk ==
  /\ ~sseDone
  /\ \E k \in 1..Len(sseStream) :
       LET decoded == decode(sseDecoder \o SubSeq(sseStream, 1, k), TRUE)
           turn    == consumeChunk(sseBuffer, decoded.text)
       IN  /\ sseStream' = SubSeq(sseStream, k + 1, Len(sseStream))
           /\ sseDecoder' = decoded.pending
           /\ sseBuffer' = turn.buffer
           /\ sseEvents' = sseEvents \o turn.events
  /\ UNCHANGED <<sseLines, sseDone>>
  /\ UNCHANGED <<runVars, toolVars, concVars, mockVars, clientVars>>

\* reader.read() resolves with done: the decoder is flushed and what is left
\* in the buffer is parsed, trimmed
ReadDone ==
  /\ ~sseDone
  /\ sseStream = <<>>
  /\ LET buffer == sseBuffer \o decode(sseDecoder, FALSE).text
     IN  /\ sseBuffer' = buffer
         /\ sseEvents' = sseEvents
              \o (IF trim(buffer) # <<>> THEN OnEvents(<<trim(buffer)>>)
                  ELSE <<>>)
  /\ sseDecoder' = <<>>
  /\ sseDone' = TRUE
  /\ UNCHANGED <<sseLines, sseStream>>
  /\ UNCHANGED <<runVars, toolVars, concVars, mockVars, clientVars>>

SseNext == ReadChunk \/ ReadDone

SseSpec == SseInit /\ [][SseNext]_vars

\* the events among records, in order
EventsOf(lines) ==
  LET written == SelectSeq(lines, LAMBDA l : l \notin JunkLines)
  IN  [i \in 1..Len(written) |-> written[i][4]]

\* the records read whole, separator included
RecordsRead ==
  LET consumed == Len(encode(StreamText(sseLines))) - Len(sseStream)
      whole    == {i \in 1..Len(sseLines) :
                     Len(encode(StreamText(SubSeq(sseLines, 1, i))))
                       <= consumed}
  IN  SubSeq(sseLines, 1, Cardinality(whole))

\* consumeSSEStream on the whole text at once, as a single chunk
WholeParse(text) ==
  LET whole == consumeChunk(<<>>, text)
  IN  whole.events
      \o (IF trim(whole.buffer) # <<>> THEN OnEvents(<<trim(whole.buffer)>>)
          ELSE <<>>)

EndsWithNewline(line) == line # <<>> /\ Last(line) = "n"

\* Holds: however the stream is cut into chunks, the events passed to
\* onEvent at its end are those of the whole text read as one chunk, and
\* when no record ends with a newline they are the events sendEvent wrote
\* (at any moment those of the records read whole so far).
ChunksDoNotMatter ==
  /\ sseDone => sseEvents = WholeParse(StreamText(sseLines))
  /\ (\A i \in 1..Len(sseLines) : ~EndsWithNewline(sseLines[i])) =>
       /\ sseEvents = EventsOf(RecordsRead)
       /\ sseDone => sseEvents = EventsOf(sseLines)

Inputs == {"", " ", "hi"}

\* multiInput.trim()
trimInput(text) == IF text = " " THEN "" ELSE text

MaxSubmits == 3

\* the requests not yet settled
InFlight == {r \in 1..Len(requests) : requests[r] # "done"}

ClientInit ==
  /\ RunIdle
  /\ ToolIdle
  /\ ConcIdle
  /\ MockIdle
  /\ SseIdle
  /\ ClientIdle

\* multiHandleInputChange: setMultiInput(e.target.value)
InputChange ==
  /\ \E text \in Inputs :
       /\ text # multiInput
       /\ multiInput' = text
  /\ UNCHANGED <<isMultiAgentRunning, multiAgentMessages, rendered, requests>>
  /\ UNCHANGED <<runVars, toolVars, concVars, mockVars, sseVars>>

\* React renders the provider again: useCallback makes a multiHandleSubmit
\* that closes over the current state
Render ==
  /\ rendered # [multiInput |-> multiInput,
                 isMultiAgentRunning |-> isMultiAgentRunning]
  /\ rendered' = [multiInput |-> multiInput,
                  isMultiAgentRunning |-> isMultiAgentRunning]
  /\ UNCHANGED <<multiInput, isMultiAgentRunning, multiAgentMessages,
                 requests>>
  /\ UNCHANGED <<runVars, toolVars, concVars, mockVars, sseVars>>

\* multiHandleSubmit up to its fetch: the guard reads the multiInput and the
\* isMultiAgentRunning of the closure
multiHandleSubmit ==
  /\ Len(requests) < MaxSubmits
  /\ IF trimInput(rendered.multiInput) = "" \/ rendered.isMultiAgentRunning
     THEN UNCHANGED clientVars
     ELSE /\ multiAgentMessages' = Append(multiAgentMessages, "user")
          /\ isMultiAgentRunning' = TRUE
          /\ multiInput' = ""
          /\ requests' = Append(requests, "fetch")
          /\ UNCHANGED rendered
  /\ UNCHANGED <<runVars, toolVars, concVars, mockVars, sseVars>>

\* catch and finally of multiHandleSubmit
SubmitFails(r) ==
  /\ multiAgentMessages' = Append(multiAgentMessages, "error")
  /\ isMultiAgentRunning' = FALSE
  /\ requests' = [requests EXCEPT ![r] = "done"]

\* the fetch of a request settles: it rejects, the response is not ok, it
\* has no body, or its body is there to read
FetchSettles ==
  /\ \E r \in 1..Len(requests) :
       /\ requests[r] = "fetch"
       /\ \E outcome \in {"rejects", "not_ok", "no_stream", "ok"} :
            IF outcome = "ok"
            THEN /\ requests' = [requests EXCEPT ![r] = "read"]
                 /\ UNCHANGED <<isMultiAgentRunning, multiAgentMessages>>
            ELSE SubmitFails(r)
  /\ UNCHANGED <<multiInput, rendered>>
  /\ UNCHANGED <<runVars, toolVars, concVars, mockVars, sseVars>>

\* consumeSSEStream of a request returns or throws
StreamEnds ==
  /\ \E r \in 1..Len(requests) :
       /\ requests[r] = "read"
       /\ \E readingFails \in BOOLEAN :
            IF readingFails THEN SubmitFails(r)
            ELSE /\ multiAgentMessages' =
                      Append(multiAgentMessages, "assistant")
                 /\ isMultiAgentRunning' = FALSE
                 /\ requests' = [requests EXCEPT ![r] = "done"]
  /\ UNCHANGED <<multiInput, rendered>>
  /\ UNCHANGED <<runVars, toolVars, concVars, mockVars, sseVars>>

ClientNext ==
  \/ InputChange
  \/ Render
  \/ multiHandleSubmit
  \/ FetchSettles
  \/ StreamEnds

ClientSpec == ClientInit /\ [][ClientNext]_vars

\* Holds: the running flag is false once every request has settled.
RunningFlagReturns == InFlight = {} /\ requests # <<>> => ~isMultiAgentRunning

\* C38: at most one multi-agent request is in flight at a time, also when
\* two submits are issued before the running flag has been rendered again.
C38_OneRequestInFlight == Cardinality(InFlight) <= 1

\* a second request was started while the first was in flight and the
\* closure still held the flag as false
C38_Witness ==
  /\ Cardinality(InFlight) = 2
  /\ isMultiAgentRunning
  /\ ~rendered.isMultiAgentRunning

====
